---- MODULE Spec2Model ----
(***************************************************************************)
(* Verification model of the near-market order book service:               *)
(*   orderbook-service/src/matching/engine.rs   (OrderBook)                *)
(*   orderbook-service/src/matching/mod.rs      (MatchingEngine)           *)
(*   orderbook-service/src/api/handlers.rs      (HTTP admission)           *)
(*   orderbook-service/src/solver_integration.rs (solver facade)           *)
(*   orderbook-service/src/storage/mod.rs       (in-memory ledger)         *)
(*   orderbook-service/src/collateral/mod.rs    (CollateralManager)        *)
(*   orderbook-service/src/matching/settlement.rs (SettlementManager)      *)
(*                                                                         *)
(* Every engine entry point takes the order book write lock first, so each *)
(* entry point is one atomic action.  Uuid::new_v4 identifiers are         *)
(* modelled by consecutive integers: an order's id is its submission rank. *)
(* Option<T> values are modelled as sets with at most one element.         *)
(***************************************************************************)
EXTENDS Integers, Sequences, FiniteSets, TLC

\* ------------------------------------------------------------- bounds
\* Orders admitted in one behaviour of Spec / of SpecBook, largest order
\* size, last clock instant.
MaxOrders == 2
MaxBookOrders == 5
MaxCancelOrders == 3
MaxSize == 2
MaxBookSize == 3
MaxTime == 1
\* Orders attempted in one behaviour of SpecFunds, and a live balance that
\* covers any single order of Spec, SpecBook and SpecCancel.
MaxFundOrders == 3
MaxTickOrders == 2
AmpleBalance == 3
\* Trades handed to the settlement manager in one behaviour.
MaxSettleTrades == 3

\* ---------------------------------------------------- program constants
\* mod.rs: calculate_complement_price, complementary price ceiling.
MaxPrice == 99999
FullDollar == 100000
\* types.rs: TickSizeConfig::default
StandardTick == 1000
FineTick == 100
FineThresholdLow == 4000
FineThresholdHigh == 96000

YES == 1
NO == 0
Outcomes == {NO, YES}
Sides == {"Buy", "Sell"}
OrderTypes == {"Market", "Limit", "GTC", "GTD", "FOK", "FAK"}
PricedTypes == OrderTypes \ {"Market"}
ActiveStatuses == {"Pending", "PartiallyFilled"}
Users == {"alice", "bob"}

\* Prices offered by the modelled clients (all on the standard tick).
Prices == {40000, 60000}
BookPrices == {50000, 60000}

\* ------------------------------------------------------------ helpers
None == {}
Some(x) == {x}
Unwrap(opt) == CHOOSE x \in opt : TRUE

EmptyMap == [x \in {} |-> x]
MapPut(f, k, v) == [x \in (DOMAIN f) \cup {k} |-> IF x = k THEN v ELSE f[x]]
MapDel(f, k) == [x \in (DOMAIN f) \ {k} |-> f[x]]

Min(a, b) == IF a <= b THEN a ELSE b
SetMin(S) == CHOOSE x \in S : \A y \in S : x <= y
SetMax(S) == CHOOSE x \in S : \A y \in S : x >= y
\* u128::saturating_sub
SatSub(a, b) == IF a >= b THEN a - b ELSE 0

\* Vec::retain(|o| o.order_id != id)
RECURSIVE Retain(_, _)
Retain(q, id) ==
    IF q = <<>> THEN <<>>
    ELSE IF Head(q).order_id = id THEN Retain(Tail(q), id)
         ELSE <<Head(q)>> \o Retain(Tail(q), id)

RECURSIVE SumSizes(_)
SumSizes(ts) == IF ts = <<>> THEN 0 ELSE Head(ts).size + SumSizes(Tail(ts))

\* -------------------------------------------------------------- state
VARIABLES
    now,        \* the wall clock (Utc::now)
    nextId,     \* the next order identifier
    db,         \* ledger orders table: order_id -> Order
    trades,     \* ledger trades table, in insertion order
    books,      \* outcome -> OrderBook, for the outcomes that have a book
    passed,     \* history: <<maker, resting order it was served ahead of>>
    reservations,  \* ledger collateral_reservations rows, in insertion order
    reply,      \* what the last submit or cancel call returned to its caller
    trade_tbl,  \* ledger trades table as settlement sees it: trade_id -> row
    pending_trades,       \* run(): VecDeque of <<trade_id, sequence>>
    settlement_sequence,  \* run(): the enqueue counter
    last_pass,  \* history: the chain calls of the last flush or retry pass
    assigned,   \* history: trade_id -> sequence it was enqueued with
    usdc,       \* USDC contract: account -> balance
    ctf,        \* CTF contract: account -> balance of the traded position
    swap,       \* history: the last atomic swap, its path and what it reported
    verifier,   \* PredictionVerifier contract state
    bridge_log, \* history: the bridge verifications called and committed
    ctf_state,  \* ConditionalTokenFramework contract state
    near_client \* NearClient: nonce tracker and the calls it made

engine_vars == <<now, nextId, db, trades, books, passed, reservations, reply>>
settle_vars ==
    <<trade_tbl, pending_trades, settlement_sequence, last_pass, assigned>>
chain_vars == <<usdc, ctf, swap>>
contract_vars == <<verifier, bridge_log, ctf_state, near_client>>
vars == <<engine_vars, settle_vars, chain_vars, contract_vars>>

\* ---------------------------------------------- engine.rs: OrderBook
\* OrderBook::new.  total_volume is written but never read: left out.
NewBook ==
    [ bids |-> EmptyMap, asks |-> EmptyMap, orders |-> EmptyMap,
      bid_orders |-> EmptyMap, ask_orders |-> EmptyMap,
      last_trade_price |-> None ]

\* The `match side { Buy => bids / bid_orders, Sell => asks / ask_orders }`
\* selection that every OrderBook method repeats.
Levels(b, side) == IF side = "Buy" THEN b.bids ELSE b.asks
Queues(b, side) == IF side = "Buy" THEN b.bid_orders ELSE b.ask_orders
WithLevels(b, side, lv) ==
    IF side = "Buy" THEN [b EXCEPT !.bids = lv] ELSE [b EXCEPT !.asks = lv]
WithQueues(b, side, qs) ==
    IF side = "Buy" THEN [b EXCEPT !.bid_orders = qs]
    ELSE [b EXCEPT !.ask_orders = qs]

\* now > expires_at, for an Option expires_at
IsExpired(o, t) == o.expires_at # None /\ t > Unwrap(o.expires_at)

add_order(b, order) ==
    LET price == order.price
        size == order.remaining_size
        lv == Levels(b, order.side)
        qs == Queues(b, order.side)
        old == IF price \in DOMAIN lv THEN lv[price]
               ELSE [price |-> price, size |-> 0, order_count |-> 0]
        level == [old EXCEPT !.size = @ + size, !.order_count = @ + 1]
        queue == IF price \in DOMAIN qs THEN qs[price] ELSE <<>>
        b1 == [b EXCEPT !.orders = MapPut(@, order.order_id, order)]
        b2 == WithLevels(b1, order.side, MapPut(lv, price, level))
    IN WithQueues(b2, order.side, MapPut(qs, price, Append(queue, order)))

remove_order(b, order_id) ==
    IF order_id \notin DOMAIN b.orders THEN b
    ELSE
      LET order == b.orders[order_id]
          price == order.price
          size == order.remaining_size
          lv == Levels(b, order.side)
          qs == Queues(b, order.side)
          level == [lv[price] EXCEPT !.size = SatSub(@, size),
                                     !.order_count = SatSub(@, 1)]
          lv1 == IF price \notin DOMAIN lv THEN lv
                 ELSE IF level.order_count = 0 THEN MapDel(lv, price)
                 ELSE MapPut(lv, price, level)
          kept == Retain(qs[price], order_id)
          qs1 == IF price \notin DOMAIN qs THEN qs
                 ELSE IF kept = <<>> THEN MapDel(qs, price)
                 ELSE MapPut(qs, price, kept)
          b1 == [b EXCEPT !.orders = MapDel(@, order_id)]
      IN WithQueues(WithLevels(b1, order.side, lv1), order.side, qs1)

RECURSIVE RemoveAll(_, _)
RemoveAll(b, ids) ==
    IF ids = <<>> THEN b ELSE RemoveAll(remove_order(b, Head(ids)), Tail(ids))

remove_expired_orders_at_price(b, price, side, t) ==
    LET qs == Queues(b, side)
        queue == IF price \in DOMAIN qs THEN qs[price] ELSE <<>>
        expired == SelectSeq(queue, LAMBDA o : IsExpired(o, t))
        orders_to_remove == [i \in 1..Len(expired) |-> expired[i].order_id]
    IN RemoveAll(b, orders_to_remove)

update_price_level_after_trade(b, price, trade_size, side) ==
    LET lv == Levels(b, side)
        qs == Queues(b, side)
        level == [lv[price] EXCEPT !.size = SatSub(@, trade_size),
                                   !.order_count = SatSub(@, 1)]
    IN IF price \notin DOMAIN lv THEN b
       ELSE IF level.size = 0 \/ level.order_count = 0
            THEN WithQueues(WithLevels(b, side, MapDel(lv, price)),
                            side, MapDel(qs, price))
            ELSE WithLevels(b, side, MapPut(lv, price, level))

\* Resting orders of the maker's side that hold priority over the maker at
\* the instant it is matched: a better price, or the same price and an
\* earlier submission.  Feeds the history variable `passed` only.
HasPriorityOver(o, maker) ==
    /\ o.order_id # maker.order_id
    /\ o.side = maker.side
    /\ o.remaining_size > 0
    /\ \/ (maker.side = "Buy" /\ o.price > maker.price)
       \/ (maker.side = "Sell" /\ o.price < maker.price)
       \/ (o.price = maker.price /\ o.order_id < maker.order_id)

ServedAheadOf(b, maker, t) ==
    { <<maker.order_id, id>> : id \in
        { i \in DOMAIN b.orders :
            HasPriorityOver(b.orders[i], maker) /\ ~IsExpired(b.orders[i], t) } }

\* The size / status bookkeeping execute_match applies to either order.
FilledBy(order, trade_size) ==
    [order EXCEPT
       !.remaining_size = @ - trade_size,
       !.filled_size = @ + trade_size,
       !.status = IF order.remaining_size - trade_size = 0
                  THEN "Filled" ELSE "PartiallyFilled"]

\* execute_match, from the point where the head maker and the trade size
\* are known: the Trade, both order updates, removal of a filled maker from
\* the queue and the order map, the level update, last_trade_price.
MatchMaker(b0, taker_order, maker_order, trade_size, maker_price, maker_side, t) ==
    LET qs == Queues(b0, maker_side)
        maker1 == FilledBy(maker_order, trade_size)
        should_remove_maker == maker1.remaining_size = 0
        b1 == IF should_remove_maker
              THEN [WithQueues(b0, maker_side,
                       MapPut(qs, maker_price, Tail(qs[maker_price])))
                      EXCEPT !.orders = MapDel(@, maker_order.order_id)]
              ELSE WithQueues(b0, maker_side,
                       MapPut(qs, maker_price,
                              <<maker1>> \o Tail(qs[maker_price])))
    IN [ book |-> [update_price_level_after_trade(b1, maker_price, trade_size,
                                                  maker_side)
                     EXCEPT !.last_trade_price = Some(maker_price)],
         taker |-> FilledBy(taker_order, trade_size),
         trade |-> Some([ maker_order_id |-> maker_order.order_id,
                          taker_order_id |-> taker_order.order_id,
                          maker_account |-> maker_order.user_account,
                          taker_account |-> taker_order.user_account,
                          maker_side |-> maker_order.side,
                          taker_side |-> taker_order.side,
                          outcome |-> taker_order.outcome,
                          price |-> maker_price,
                          size |-> trade_size,
                          trade_type |-> "Minting",
                          settlement_status |-> "Pending" ]),
         ahead |-> ServedAheadOf(b0, maker_order, t) ]

\* execute_match once the expired orders of the level are gone (b0).
\* Result: the book, the taker, Option<Trade>, and the priority history.
MatchAtLevel(b0, taker_order, maker_price, maker_side, t) ==
    LET qs == Queues(b0, maker_side)
    IN IF maker_price \notin DOMAIN qs \/ qs[maker_price] = <<>>
          \/ Min(taker_order.remaining_size,
                 Head(qs[maker_price]).remaining_size) = 0
       THEN [book |-> b0, taker |-> taker_order, trade |-> None, ahead |-> {}]
       ELSE MatchMaker(b0, taker_order, Head(qs[maker_price]),
                       Min(taker_order.remaining_size,
                           Head(qs[maker_price]).remaining_size),
                       maker_price, maker_side, t)

execute_match(b, taker_order, maker_price, maker_side, t) ==
    MatchAtLevel(remove_expired_orders_at_price(b, maker_price, maker_side, t),
                 taker_order, maker_price, maker_side, t)

OppositeSide(side) == IF side = "Buy" THEN "Sell" ELSE "Buy"

\* asks.iter().next() for a buyer, bids.iter().next_back() for a seller
BestOpposing(b, taker_side) ==
    IF taker_side = "Buy" THEN SetMin(DOMAIN b.asks) ELSE SetMax(DOMAIN b.bids)

\* remaining_order.price >= best_ask_price / <= best_bid_price
PriceCrosses(taker, best) ==
    IF taker.side = "Buy" THEN taker.price >= best ELSE taker.price <= best

\* The `while remaining_order.remaining_size > 0` loop shared by
\* match_limit_order (priced = TRUE) and match_market_order (priced = FALSE).
\* MatchLoop is the loop head, AfterMatch the branch on execute_match's
\* result m.  `spins` records the one way the loop cannot end: execute_match
\* returns None on a level of size 0 and leaves the book as it was, so
\* `continue` re-reads the same level for ever.
RECURSIVE MatchLoop(_, _, _, _, _, _)
AfterMatch(b, remaining_order, level_size, m, ts, ahead, priced, t) ==
    IF m.trade # None
    THEN MatchLoop(m.book, m.taker, Append(ts, Unwrap(m.trade)),
                   ahead \cup m.ahead, priced, t)
    ELSE IF level_size = 0 /\ m.book # b
    THEN MatchLoop(m.book, remaining_order, ts, ahead, priced, t)
    ELSE [book |-> m.book, taker |-> remaining_order, trades |-> ts,
          ahead |-> ahead, spins |-> level_size = 0]

MatchLoop(b, remaining_order, ts, ahead, priced, t) ==
    LET maker_side == OppositeSide(remaining_order.side)
        best == BestOpposing(b, remaining_order.side)
    IN IF \/ remaining_order.remaining_size = 0
          \/ DOMAIN Levels(b, maker_side) = {}
          \/ (priced /\ ~PriceCrosses(remaining_order, best))
       THEN [book |-> b, taker |-> remaining_order, trades |-> ts,
             ahead |-> ahead, spins |-> FALSE]
       ELSE AfterMatch(b, remaining_order, Levels(b, maker_side)[best].size,
                       execute_match(b, remaining_order, best, maker_side, t),
                       ts, ahead, priced, t)

\* `if remaining_order.remaining_size > 0 { self.add_order(..) }`
RestRemainder(r) ==
    IF r.taker.remaining_size > 0
    THEN [r EXCEPT !.book = add_order(r.book, r.taker)]
    ELSE r

match_limit_order(b, incoming_order, t) ==
    RestRemainder(MatchLoop(b, incoming_order, <<>>, {}, TRUE, t))

match_market_order(b, incoming_order, t) ==
    MatchLoop(b, incoming_order, <<>>, {}, FALSE, t)

\* Option<Order>: a clone of the head of the queue at `price`.
get_orders_by_price_and_side(b, price, side) ==
    LET qs == Queues(b, side)
    IN IF price \in DOMAIN qs /\ qs[price] # <<>>
       THEN Some(Head(qs[price])) ELSE None

update_order_size(b, order_id, new_remaining_size) ==
    IF order_id \notin DOMAIN b.orders THEN b
    ELSE
      LET order == b.orders[order_id]
          size_diff == SatSub(order.remaining_size, new_remaining_size)
          lv == Levels(b, order.side)
          b1 == [b EXCEPT
                   !.orders[order_id].remaining_size = new_remaining_size]
      IN IF order.price \in DOMAIN lv
         THEN WithLevels(b1, order.side,
                [lv EXCEPT ![order.price].size = SatSub(@, size_diff)])
         ELSE b1

remove_specific_order(b, order_id, price, side) ==
    LET qs == Queues(b, side)
        kept == Retain(qs[price], order_id)
        qs1 == IF price \notin DOMAIN qs THEN qs
               ELSE IF kept = <<>> THEN MapDel(qs, price)
               ELSE MapPut(qs, price, kept)
        b1 == [WithQueues(b, side, qs1) EXCEPT !.orders = MapDel(@, order_id)]
        lv == Levels(b, side)
        level == [lv[price] EXCEPT !.order_count = SatSub(@, 1)]
    IN IF price \notin DOMAIN lv THEN b1
       ELSE IF level.order_count = 0 THEN WithLevels(b1, side, MapDel(lv, price))
       ELSE WithLevels(b1, side, MapPut(lv, price, level))

\* One side of cleanup_empty_levels: drop the levels with size 0 or count 0
\* together with their queues, then the queues left empty.
CleanSide(b, side) ==
    LET lv == Levels(b, side)
        qs == Queues(b, side)
        empty_prices == { p \in DOMAIN lv :
                            lv[p].size = 0 \/ lv[p].order_count = 0 }
        qs1 == [p \in (DOMAIN qs) \ empty_prices |-> qs[p]]
        orphaned == { p \in DOMAIN qs1 : qs1[p] = <<>> }
    IN WithQueues(
         WithLevels(b, side, [p \in (DOMAIN lv) \ empty_prices |-> lv[p]]),
         side, [p \in (DOMAIN qs1) \ orphaned |-> qs1[p]])

cleanup_empty_levels(b) == CleanSide(CleanSide(b, "Buy"), "Sell")

\* ------------------------------------------ mod.rs: MatchingEngine
\* market_orderbooks.entry(outcome).or_insert_with(OrderBook::new)
EntryOrInsert(bs, outcome) ==
    IF outcome \in DOMAIN bs THEN bs ELSE MapPut(bs, outcome, NewBook)

\* Result<u64>: None stands for Err.
calculate_complement_price(price) ==
    IF price > MaxPrice THEN None
    ELSE IF price = 0 THEN None
    ELSE Some(FullDollar - price)

\* find_and_validate_complementary_order, from the candidate on.
ValidateCandidate(found, incoming_size, t) ==
    IF found = None THEN None
    ELSE IF Unwrap(found).status \notin ActiveStatuses THEN None
    ELSE IF IsExpired(Unwrap(found), t) THEN None
    ELSE IF Min(incoming_size, Unwrap(found).remaining_size) = 0 THEN None
    ELSE Some(<<Unwrap(found),
                Min(incoming_size, Unwrap(found).remaining_size)>>)

\* Option<(Order, u128)>
find_and_validate_complementary_order(b, target_price, incoming_side, incoming_size, t) ==
    ValidateCandidate(
        get_orders_by_price_and_side(b, target_price, incoming_side),
        incoming_size, t)

\* Result<Trade> with the two orders it mutates; ok = FALSE stands for Err,
\* returned before anything is written.
create_complementary_mint_trade_validated_mutable(taker_order, maker_order, validated_trade_size) ==
    LET total_price == taker_order.price + maker_order.price
        taker1 == [taker_order EXCEPT
                     !.remaining_size = SatSub(@, validated_trade_size),
                     !.filled_size = @ + validated_trade_size,
                     !.status = IF SatSub(taker_order.remaining_size,
                                          validated_trade_size) = 0
                                THEN "Filled" ELSE "PartiallyFilled"]
        maker1 == [maker_order EXCEPT
                     !.remaining_size = SatSub(@, validated_trade_size),
                     !.filled_size = @ + validated_trade_size,
                     !.status = IF SatSub(maker_order.remaining_size,
                                          validated_trade_size) = 0
                                THEN "Filled" ELSE "PartiallyFilled"]
    IN IF \/ validated_trade_size = 0
          \/ validated_trade_size > taker_order.remaining_size
          \/ validated_trade_size > maker_order.remaining_size
          \/ total_price > FullDollar
       THEN [ok |-> FALSE, taker |-> taker_order, maker |-> maker_order,
             trade |-> None]
       ELSE [ok |-> TRUE, taker |-> taker1, maker |-> maker1,
             trade |-> Some([ maker_order_id |-> maker_order.order_id,
                              taker_order_id |-> taker_order.order_id,
                              maker_account |-> maker_order.user_account,
                              taker_account |-> taker_order.user_account,
                              maker_side |-> maker_order.side,
                              taker_side |-> taker_order.side,
                              outcome |-> taker_order.outcome,
                              price |-> taker_order.price,
                              size |-> validated_trade_size,
                              trade_type |-> "Minting",
                              settlement_status |-> "Pending" ])]

\* What complementary matching returns when it does nothing (Ok(vec![]) or
\* an Err, which the caller swallows): books, ledger and order untouched.
NoMint(incoming_order, bs, orders_tbl) ==
    [books |-> bs, db |-> orders_tbl, taker |-> incoming_order,
     trades |-> <<>>]

\* execute_complementary_match_transaction_mutable once the trade has been
\* built (r): the maker row is persisted, then the maker leaves the
\* complement book or has its size updated there.
MintAgainst(incoming_order, bs, orders_tbl, complement_outcome, maker_order, r) ==
    IF ~r.ok THEN NoMint(incoming_order, bs, orders_tbl)
    ELSE [ books |-> [bs EXCEPT ![complement_outcome] =
                        IF r.maker.remaining_size = 0
                        THEN remove_specific_order(@, maker_order.order_id,
                                 maker_order.price, maker_order.side)
                        ELSE update_order_size(@, maker_order.order_id,
                                 r.maker.remaining_size)],
           db |-> MapPut(orders_tbl, r.maker.order_id, r.maker),
           taker |-> r.taker,
           trades |-> <<Unwrap(r.trade)>> ]

\* ... once the candidate search has answered (matching_order_result).
MintWith(incoming_order, bs, orders_tbl, complement_outcome, matching_order_result) ==
    IF matching_order_result = None
    THEN NoMint(incoming_order, bs, orders_tbl)
    ELSE MintAgainst(incoming_order, bs, orders_tbl, complement_outcome,
             Unwrap(matching_order_result)[1],
             create_complementary_mint_trade_validated_mutable(
                 incoming_order, Unwrap(matching_order_result)[1],
                 Unwrap(matching_order_result)[2]))

\* Mutant of execute_complementary_match_transaction_mutable: the maker is
\* looked up at the incoming order's own price instead of its complement,
\* and the pair is filled without the check of the price sum.
MintAtAnyPrice(incoming_order, bs, orders_tbl, t) ==
    LET complement_outcome == IF incoming_order.outcome = 1 THEN 0 ELSE 1
        found == get_orders_by_price_and_side(bs[complement_outcome],
                     incoming_order.price, incoming_order.side)
        n == Min(incoming_order.remaining_size, Unwrap(found).remaining_size)
    IN IF complement_outcome \notin DOMAIN bs \/ found = None
       THEN NoMint(incoming_order, bs, orders_tbl)
       ELSE MintAgainst(incoming_order, bs, orders_tbl, complement_outcome,
                Unwrap(found),
                [ ok |-> TRUE,
                  taker |-> FilledBy(incoming_order, n),
                  maker |-> FilledBy(Unwrap(found), n),
                  trade |-> Some([ maker_order_id |-> Unwrap(found).order_id,
                                   taker_order_id |-> incoming_order.order_id,
                                   maker_account |-> Unwrap(found).user_account,
                                   taker_account |-> incoming_order.user_account,
                                   maker_side |-> Unwrap(found).side,
                                   taker_side |-> incoming_order.side,
                                   outcome |-> incoming_order.outcome,
                                   price |-> incoming_order.price,
                                   size |-> n,
                                   trade_type |-> "Minting",
                                   settlement_status |-> "Pending" ]) ])

\* Result: the books, the ledger orders table, the incoming order and the
\* trades (at most one).
execute_complementary_match_transaction_mutable(incoming_order, bs, orders_tbl, t) ==
    LET complement_outcome == IF incoming_order.outcome = 1 THEN 0 ELSE 1
        complement_price == calculate_complement_price(incoming_order.price)
    IN IF complement_price = None \/ complement_outcome \notin DOMAIN bs
       THEN NoMint(incoming_order, bs, orders_tbl)
       ELSE MintWith(incoming_order, bs, orders_tbl, complement_outcome,
                find_and_validate_complementary_order(
                    bs[complement_outcome], Unwrap(complement_price),
                    incoming_order.side, incoming_order.remaining_size, t))

check_complementary_matches_mutable(incoming_order, bs, orders_tbl, t) ==
    IF \/ incoming_order.order_type \notin {"Limit", "GTC", "GTD", "FOK", "FAK"}
       \/ incoming_order.price = 0
    THEN NoMint(incoming_order, bs, orders_tbl)
    ELSE execute_complementary_match_transaction_mutable(incoming_order, bs,
                                                         orders_tbl, t)

\* The `for trade in &trades` fold that brings the working order up to date.
RECURSIVE ApplyTrades(_, _)
ApplyTrades(working_order, ts) ==
    IF ts = <<>> THEN working_order
    ELSE ApplyTrades(
           [working_order EXCEPT
              !.remaining_size = SatSub(@, Head(ts).size),
              !.filled_size = @ + Head(ts).size,
              !.status = IF SatSub(working_order.remaining_size,
                                   Head(ts).size) = 0
                         THEN "Filled" ELSE "PartiallyFilled"],
           Tail(ts))

\* execute_regular_orderbook_matching once the book has answered (m): a
\* Fill-or-Kill order keeps its trades only if they cover its whole size.
RegularOutcome(working_order, bs1, m) ==
    LET killed == /\ working_order.order_type = "FOK"
                  /\ SumSizes(m.trades) # working_order.remaining_size
    IN [ books |-> [bs1 EXCEPT ![working_order.outcome] = m.book],
         working |-> IF killed THEN working_order
                     ELSE ApplyTrades(working_order, m.trades),
         trades |-> IF killed THEN <<>> ELSE m.trades,
         ahead |-> IF killed THEN {} ELSE m.ahead,
         spins |-> m.spins ]

execute_regular_orderbook_matching(working_order, bs, t) ==
    RegularOutcome(working_order, EntryOrInsert(bs, working_order.outcome),
        IF working_order.order_type = "Market"
        THEN match_market_order(
                 EntryOrInsert(bs, working_order.outcome)[working_order.outcome],
                 working_order, t)
        ELSE match_limit_order(
                 EntryOrInsert(bs, working_order.outcome)[working_order.outcome],
                 working_order, t))

\* Steps 6 and 7 of execute_order_submission_transaction: what is left of
\* the working order is added to its outcome's book, and the working order
\* is persisted if any trade was made.  The trade rows are appended by the
\* caller.
FinishSubmission(reg, cmp) ==
    [ books |-> IF cmp.taker.remaining_size > 0
                THEN [EntryOrInsert(cmp.books, cmp.taker.outcome)
                        EXCEPT ![cmp.taker.outcome] = add_order(@, cmp.taker)]
                ELSE cmp.books,
      db |-> IF reg.trades \o cmp.trades # <<>>
             THEN MapPut(cmp.db, cmp.taker.order_id, cmp.taker)
             ELSE cmp.db,
      trades |-> reg.trades \o cmp.trades,
      working |-> cmp.taker,
      ahead |-> reg.ahead,
      spins |-> reg.spins ]

\* Step 5: complementary matching of what regular matching (reg) left.
ThenComplementary(reg, db1, t) ==
    FinishSubmission(reg,
        IF reg.working.remaining_size > 0
        THEN check_complementary_matches_mutable(reg.working, reg.books, db1, t)
        ELSE NoMint(reg.working, reg.books, db1))

\* Steps 3 to 7 of execute_order_submission_transaction, after the balance
\* check has passed: the order row is inserted, then regular matching.
execute_order_submission_transaction(order, bs, orders_tbl, t) ==
    ThenComplementary(
        IF order.remaining_size > 0
        THEN execute_regular_orderbook_matching(order, bs, t)
        ELSE [books |-> bs, working |-> order, trades |-> <<>>,
              ahead |-> {}, spins |-> FALSE],
        MapPut(orders_tbl, order.order_id, order), t)

\* ------------------------------------------------- types.rs: tick sizes
get_tick_size(price) ==
    IF price < FineThresholdLow \/ price > FineThresholdHigh
    THEN FineTick ELSE StandardTick

\* Result<u64, String>: None stands for Err.
round_price(price) ==
    IF price = 0 THEN None
    ELSE IF price > MaxPrice THEN None
    ELSE LET tick_size == get_tick_size(price)
             rounded_price == (price \div tick_size) * tick_size
         IN IF rounded_price = 0 THEN Some(tick_size) ELSE Some(rounded_price)

\* ------------------------------------------- handlers.rs: HTTP admission
\* A request carries Option<u64> price and Option<DateTime> expires_at.
validate_order_request(request) ==
    /\ request.outcome <= 1
    /\ request.size # 0
    /\ IF request.order_type = "Market"
       THEN request.price = None \/ request.price = Some(0)
       ELSE /\ request.price # None
            /\ round_price(Unwrap(request.price)) = request.price

\* The Order the handler builds from a request it has validated.
OrderOfRequest(request, id) ==
    [ order_id |-> id,
      user_account |-> request.user_account,
      outcome |-> request.outcome,
      side |-> request.side,
      order_type |-> request.order_type,
      price |-> IF request.price = None THEN 0 ELSE Unwrap(request.price),
      original_size |-> request.size,
      remaining_size |-> request.size,
      filled_size |-> 0,
      status |-> "Pending",
      expires_at |-> request.expires_at ]

\* ------------------------------- solver_integration.rs: solver facade
validate_order_parameters(order) ==
    /\ order.outcome <= 1
    /\ order.original_size # 0
    /\ IF order.order_type = "Market"
       THEN order.price = 0
       ELSE order.price # 0 /\ order.price <= FullDollar

\* The Order process_solver_order builds from a solver intent; expires_at
\* of the intent is a duration counted from now, 0 meaning none.
OrderOfIntent(solver_order, id, t) ==
    [ order_id |-> id,
      user_account |-> solver_order.user,
      outcome |-> solver_order.outcome,
      side |-> solver_order.side,
      order_type |-> solver_order.order_type,
      price |-> solver_order.price,
      original_size |-> solver_order.amount,
      remaining_size |-> solver_order.amount,
      filled_size |-> solver_order.filled_amount,
      status |-> solver_order.status,
      expires_at |-> IF solver_order.expires_at > 0
                     THEN Some(t + solver_order.expires_at) ELSE None ]

\* ------------------------------------- collateral/mod.rs: reservations
\* What a call returns to its caller: Ok, or the error it reports.
Ok == "Ok"
InsufficientBalance == "Insufficient balance to place order"
NotAuthorized == "Not authorized to cancel this order"
CannotCancel == "Cannot cancel order in status"
NotInOrderbook == "Order not found in orderbook - may have been filled"
DatabaseError == "database error"

\* Ledger calls of a submit that may fail (DatabaseTrait returns Result).
Faults == {"none", "insert_order", "insert_trade", "update_order"}

calculate_required_balance(order) ==
    IF order.side = "Buy"
    THEN (order.remaining_size * order.price) \div FullDollar
    ELSE order.remaining_size

\* Both reserved totals answer 0 whatever rows the ledger holds.
get_reserved_usdc_for_market(account_id, rows) == 0

get_reserved_tokens_for_market(account_id, rows) == 0

\* balance is what the chain answers for the account at the time of the
\* call: its USDC for a Buy, its outcome tokens for a Sell.
get_real_time_market_balance(account_id, side, balance, rows) ==
    IF side = "Buy"
    THEN SatSub(balance, get_reserved_usdc_for_market(account_id, rows))
    ELSE SatSub(balance, get_reserved_tokens_for_market(account_id, rows))

\* The row is stored under a fresh identifier, not under the order's.
reserve_market_balance(rows, account_id, side, amount) ==
    Append(rows, [account_id |-> account_id, side |-> side,
                  reserved_amount |-> amount])

\* check_and_reserve_balance writing the reservation row before it
\* compares the balance.
ReserveBeforeCheck(order, balance, rows) ==
    [ ok |-> get_real_time_market_balance(order.user_account, order.side,
                                          balance, rows)
               >= calculate_required_balance(order),
      reservations |-> reserve_market_balance(rows, order.user_account,
                           order.side, calculate_required_balance(order)) ]

check_and_reserve_balance(order, balance, rows) ==
    IF get_real_time_market_balance(order.user_account, order.side,
                                    balance, rows)
         < calculate_required_balance(order)
    THEN [ok |-> FALSE, reservations |-> rows]
    ELSE [ok |-> TRUE,
          reservations |-> reserve_market_balance(rows, order.user_account,
                               order.side, calculate_required_balance(order))]

\* execute_atomic_balance_release only logs: no row is removed or changed.
release_market_balance(rows, account_id, amount) == rows

\* ------------------------------------------- mod.rs: submit and cancel
\* A submit that returns before anything but rows was written.
Rejected(bs, orders_tbl, rows, why) ==
    [ books |-> bs, db |-> orders_tbl, trades |-> <<>>, ahead |-> {},
      spins |-> FALSE, reservations |-> rows, reply |-> why ]

\* Steps 3 to 7 with the ledger call named by fault failing: tx is what
\* the steps compute when no call fails, rows the reservations after step
\* 2.  A failing call returns at once (the `?`), undoing nothing.
SubmissionOutcome(order, bs, orders_tbl, rows, tx, fault) ==
    IF fault = "insert_order"
    THEN Rejected(bs, orders_tbl, rows, DatabaseError)
    ELSE IF fault \in {"insert_trade", "update_order"} /\ tx.trades # <<>>
    THEN [ books |-> tx.books,
           db |-> MapPut(tx.db, order.order_id, order),
           trades |-> IF fault = "insert_trade" THEN <<>> ELSE tx.trades,
           ahead |-> tx.ahead, spins |-> tx.spins,
           reservations |-> rows, reply |-> DatabaseError ]
    ELSE [ books |-> tx.books, db |-> tx.db, trades |-> tx.trades,
           ahead |-> tx.ahead, spins |-> tx.spins,
           reservations |-> rows, reply |-> Ok ]

\* Step 2 of execute_order_submission_transaction and what follows it.
SubmitChecked(order, bs, orders_tbl, rows, chk, t, fault) ==
    IF ~chk.ok
    THEN Rejected(bs, orders_tbl, chk.reservations, InsufficientBalance)
    ELSE SubmissionOutcome(order, bs, orders_tbl, chk.reservations,
             execute_order_submission_transaction(order, bs, orders_tbl, t),
             fault)

\* MatchingEngine::submit_order
submit_order(order, bs, orders_tbl, rows, balance, t, fault) ==
    SubmitChecked(order, bs, orders_tbl, rows,
                  check_and_reserve_balance(order, balance, rows), t, fault)

CancelOutcome(bs, orders_tbl, rows, why) ==
    [ books |-> bs, db |-> orders_tbl, reservations |-> rows, reply |-> why ]

\* MatchingEngine::execute_order_cancellation_transaction, for an order_id
\* the ledger knows.
\* The cancellation without its ownership check.
CancelWithoutOwnership(order_id, user_account, bs, orders_tbl, rows) ==
    IF orders_tbl[order_id].status \notin ActiveStatuses
    THEN CancelOutcome(bs, orders_tbl, rows, CannotCancel)
    ELSE IF orders_tbl[order_id].outcome \notin DOMAIN bs
    THEN CancelOutcome(bs, orders_tbl, rows, NotInOrderbook)
    ELSE CancelOutcome(
           [bs EXCEPT ![orders_tbl[order_id].outcome] =
                          remove_order(@, order_id)],
           [orders_tbl EXCEPT ![order_id].status = "Cancelled"],
           release_market_balance(rows, user_account,
               calculate_required_balance(orders_tbl[order_id])),
           Ok)

execute_order_cancellation_transaction(order_id, user_account, bs, orders_tbl, rows) ==
    IF orders_tbl[order_id].user_account # user_account
    THEN CancelOutcome(bs, orders_tbl, rows, NotAuthorized)
    ELSE IF orders_tbl[order_id].status \notin ActiveStatuses
    THEN CancelOutcome(bs, orders_tbl, rows, CannotCancel)
    ELSE IF orders_tbl[order_id].outcome \notin DOMAIN bs
    THEN CancelOutcome(bs, orders_tbl, rows, NotInOrderbook)
    ELSE CancelOutcome(
           [bs EXCEPT ![orders_tbl[order_id].outcome] =
                          remove_order(@, order_id)],
           [orders_tbl EXCEPT ![order_id].status = "Cancelled"],
           release_market_balance(rows, user_account,
               calculate_required_balance(orders_tbl[order_id])),
           Ok)

\* ------------------------- contracts/verifier/src/lib.rs: PredictionVerifier
\* Bridge amounts are counted in units of 10^12 (one million USDC).
DefaultMaxDailyVolume == 10
DefaultMaxSingleTransaction == 1
\* The number of cross-chain calls followed.
MaxBridgeCalls == 2

\* A string, by what the checks read of it: starts_with("0x") and len().
Hex(text, len) == [text |-> text, starts_with_0x |-> TRUE, len |-> len]
Plain(text) == [text |-> text, starts_with_0x |-> FALSE, len |-> 2]

Owner == "owner"
Callers == {"owner", "mallory"}
WhitelistedToken == "0xA0b8"
\* Two of the chains [1, 137, 42161, 10, 8453] of verify_evm_signature
EvmChains == {1, 137}

Accepted(st) == [ok |-> TRUE, message |-> "", st |-> st]
Refused(st, message) == [ok |-> FALSE, message |-> message, st |-> st]

\* BridgeSecurityConfig::default()
DefaultSecurityConfig ==
    [ max_daily_volume |-> DefaultMaxDailyVolume,
      max_single_transaction |-> DefaultMaxSingleTransaction,
      enable_whitelist |-> TRUE,
      whitelisted_tokens |-> {WhitelistedToken},
      emergency_pause |-> FALSE ]

\* PredictionVerifier::new
VerifierNew ==
    [ verified_intents |-> {},
      registered_solvers |-> {},
      bridge_connector_config |-> None,
      pending_bridge_requests |-> {},
      verified_bridge_txs |-> {},
      bridge_security_config |-> DefaultSecurityConfig ]

\* verified_intents and verified_bridge_txs are both UnorderedSet::new(b"v"):
\* the two sets keep their element keys under the same storage prefix, so
\* contains() of either answers for the elements of both.
StoredUnderV(st, element) ==
    element \in st.verified_intents \cup st.verified_bridge_txs

perform_security_checks(st, intent) ==
    IF intent.amount > st.bridge_security_config.max_single_transaction
    THEN Refused(st, "Transaction amount exceeds maximum allowed")
    ELSE IF intent.bridge_min_amount = 0
    THEN Refused(st, "Bridge minimum amount must be positive")
    ELSE IF intent.amount < intent.bridge_min_amount
    THEN Refused(st, "Transaction amount below bridge minimum")
    ELSE IF /\ st.bridge_security_config.enable_whitelist
            /\ intent.source_token \notin st.bridge_security_config.whitelisted_tokens
    THEN Refused(st, "Token not whitelisted for bridging")
    ELSE IF ~intent.source_user.starts_with_0x \/ intent.source_user.len # 42
    THEN Refused(st, "Invalid source user address format")
    ELSE Accepted(st)

create_bridge_request_for_relayer(st, tx_hash, intent) ==
    [st EXCEPT !.pending_bridge_requests =
        @ \cup { [ tx_hash |-> tx_hash, intent_id |-> intent.intent_id,
                   user_address |-> intent.source_user,
                   amount |-> intent.amount, status |-> "pending" ] }]

\* verify_bridge_transaction from "Validate bridge configuration" on.
VerifyConfigured(st, tx_hash, intent) ==
    IF st.bridge_connector_config = None
    THEN Refused(st, "Bridge config not initialized")
    ELSE IF ~Unwrap(st.bridge_connector_config).javascript_client_enabled
    THEN Refused(st, "JavaScript bridge client not enabled")
    ELSE IF intent.source_chain_id
              \notin Unwrap(st.bridge_connector_config).supported_chains
    THEN Refused(st, "Unsupported chain ID")
    ELSE IF ~perform_security_checks(st, intent).ok
    THEN perform_security_checks(st, intent)
    ELSE Accepted(
           [create_bridge_request_for_relayer(st, tx_hash, intent)
              EXCEPT !.verified_bridge_txs = @ \cup {tx_hash}])

\* verify_bridge_transaction without its replay check.
VerifyAnyNumberOfTimes(st, tx_hash, intent) ==
    IF st.bridge_security_config.emergency_pause
    THEN Refused(st, "Bridge operations are paused")
    ELSE IF ~tx_hash.starts_with_0x \/ tx_hash.len # 66
    THEN Refused(st, "Invalid transaction hash format")
    ELSE VerifyConfigured(st, tx_hash, intent)

\* verify_bridge_transaction without its pause check.
VerifyWhilePaused(st, tx_hash, intent) ==
    IF ~tx_hash.starts_with_0x \/ tx_hash.len # 66
    THEN Refused(st, "Invalid transaction hash format")
    ELSE IF StoredUnderV(st, tx_hash)
    THEN Refused(st, "Transaction already processed (replay attack prevention)")
    ELSE VerifyConfigured(st, tx_hash, intent)

verify_bridge_transaction(st, tx_hash, intent) ==
    IF st.bridge_security_config.emergency_pause
    THEN Refused(st, "Bridge operations are paused")
    ELSE IF ~tx_hash.starts_with_0x \/ tx_hash.len # 66
    THEN Refused(st, "Invalid transaction hash format")
    ELSE IF StoredUnderV(st, tx_hash)
    THEN Refused(st, "Transaction already processed (replay attack prevention)")
    ELSE VerifyConfigured(st, tx_hash, intent)

\* The asserts and panics of verify_evm_signature; `signature_ok` is
\* signature.starts_with("0x") && signature.len() == 132.
verify_evm_signature(st, intent, signature_ok) ==
    IF intent.source_chain_id \notin EvmChains
    THEN Refused(st, "Unsupported source chain ID")
    ELSE IF ~signature_ok
    THEN Refused(st, "Invalid EVM signature format")
    ELSE IF ~intent.source_user.starts_with_0x \/ intent.source_user.len # 42
    THEN Refused(st, "Invalid EVM address")
    ELSE IF st.bridge_connector_config = None
    THEN Accepted(st)
    ELSE IF ~Unwrap(st.bridge_connector_config).javascript_client_enabled
    THEN Refused(st, "JavaScript bridge client not enabled")
    ELSE IF intent.source_chain_id
              \notin Unwrap(st.bridge_connector_config).supported_chains
    THEN Refused(st, "Unsupported source chain")
    ELSE Accepted(st)

verify_cross_chain_intent(st, intent, signature_ok, bridge_proof) ==
    IF ~verify_evm_signature(st, intent, signature_ok).ok
    THEN verify_evm_signature(st, intent, signature_ok)
    ELSE verify_bridge_transaction(st, bridge_proof, intent)

\* verify_intent; `market_ok` stands for its checks of the market, the
\* deadline, the amount limits, the outcome and the prices.
verify_intent(st, intent, market_ok) ==
    ~StoredUnderV(st, intent.intent_id) /\ market_ok

verify_and_solve(st, intent, market_ok, solver_account) ==
    IF ~verify_intent(st, intent, market_ok)
    THEN Refused(st, "Intent verification failed")
    ELSE IF solver_account \notin st.registered_solvers
    THEN Refused(st, "Solver not registered")
    ELSE Accepted([st EXCEPT !.verified_intents = @ \cup {intent.intent_id}])

\* A panic anywhere in the call discards every state change of the call.
verify_and_solve_cross_chain(st, intent, signature_ok, bridge_proof, market_ok, solver_account) ==
    IF ~verify_cross_chain_intent(st, intent, signature_ok, bridge_proof).ok
    THEN Refused(st, verify_cross_chain_intent(st, intent, signature_ok,
                                               bridge_proof).message)
    ELSE IF ~verify_and_solve(
               verify_cross_chain_intent(st, intent, signature_ok,
                                         bridge_proof).st,
               intent, market_ok, solver_account).ok
    THEN Refused(st, verify_and_solve(
               verify_cross_chain_intent(st, intent, signature_ok,
                                         bridge_proof).st,
               intent, market_ok, solver_account).message)
    ELSE verify_and_solve(
               verify_cross_chain_intent(st, intent, signature_ok,
                                         bridge_proof).st,
               intent, market_ok, solver_account)

VerifierInit ==
    /\ verifier = VerifierNew
    /\ bridge_log = [calls |-> 0, committed |-> <<>>, last |-> None]

\* One cross-chain call, recorded with the pause flag, the daily cap and the
\* verified set it met.
CallRecord(intent, bridge_proof, result) ==
    [ source_user |-> intent.source_user,
      paused |-> verifier.bridge_security_config.emergency_pause,
      max_daily_volume |-> verifier.bridge_security_config.max_daily_volume,
      known |-> bridge_proof \in verifier.verified_bridge_txs,
      ok |-> result.ok, message |-> result.message ]

CrossChainCall(intent, bridge_proof, result) ==
    /\ bridge_log.calls < MaxBridgeCalls
    /\ verifier' = result.st
    /\ bridge_log' =
         [ calls |-> bridge_log.calls + 1,
           committed |-> IF result.ok
                         THEN Append(bridge_log.committed,
                                     [ tx_hash |-> bridge_proof,
                                       source_user |-> intent.source_user,
                                       amount |-> intent.amount ])
                         ELSE bridge_log.committed,
           last |-> Some(CallRecord(intent, bridge_proof, result)) ]
    /\ UNCHANGED <<engine_vars, settle_vars, chain_vars, ctf_state, near_client>>

VerifyAndSolveCrossChain(intent, signature_ok, bridge_proof, market_ok, solver_account) ==
    CrossChainCall(intent, bridge_proof,
        verify_and_solve_cross_chain(verifier, intent, signature_ok,
                                     bridge_proof, market_ok, solver_account))

\* The owner-only calls panic for any other caller.
RegisterSolver(caller, solver) ==
    /\ caller = Owner
    /\ verifier' = [verifier EXCEPT !.registered_solvers = @ \cup {solver}]
    /\ UNCHANGED <<engine_vars, settle_vars, chain_vars, bridge_log, ctf_state, near_client>>

ConfigureBridge(caller, supported_chains) ==
    /\ caller = Owner
    /\ verifier' = [verifier EXCEPT !.bridge_connector_config =
                      Some([ supported_chains |-> supported_chains,
                             javascript_client_enabled |-> TRUE ])]
    /\ UNCHANGED <<engine_vars, settle_vars, chain_vars, bridge_log, ctf_state, near_client>>

EmergencyPauseBridge(caller, pause) ==
    /\ caller = Owner
    /\ verifier' = [verifier EXCEPT
                      !.bridge_security_config.emergency_pause = pause]
    /\ UNCHANGED <<engine_vars, settle_vars, chain_vars, bridge_log, ctf_state, near_client>>

UpdateBridgeSecurityConfig(caller, config) ==
    /\ caller = Owner
    /\ verifier' = [verifier EXCEPT !.bridge_security_config = config]
    /\ UNCHANGED <<engine_vars, settle_vars, chain_vars, bridge_log, ctf_state, near_client>>

\* verify_and_solve called directly by a solver.
VerifyAndSolve(intent, market_ok, solver_account) ==
    /\ verify_and_solve(verifier, intent, market_ok, solver_account).ok
    /\ verifier' = verify_and_solve(verifier, intent, market_ok, solver_account).st
    /\ UNCHANGED <<engine_vars, settle_vars, chain_vars, bridge_log, ctf_state, near_client>>

\* ---- the calls the verifier is driven with ----
TxHashes == { Hex("0xaaa", 66), Hex("0xbbb", 66), Hex("0xshort", 10) }
IntentIds == { Plain("intent-1"), Plain("intent-2"), Hex("0xaaa", 66) }
SourceUsers == { Hex("0xuser1", 42), Hex("0xuser2", 42) }
MaxBridgeAmount == 2
Solvers == { "solver.near" }
WellFormedIntent(intent_id, source_user, amount) ==
    [ intent_id |-> intent_id, source_user |-> source_user, source_chain_id |-> 1,
      source_token |-> WhitelistedToken, amount |-> amount, bridge_min_amount |-> 1 ]
\* One intent with each single flaw the checks look for.
FlawedIntents ==
    LET intent == WellFormedIntent(Plain("intent-1"), Hex("0xuser1", 42), 1)
    IN  { [intent EXCEPT !.source_chain_id = 56],
          [intent EXCEPT !.source_chain_id = 137],
          [intent EXCEPT !.source_token = "0xdead"],
          [intent EXCEPT !.bridge_min_amount = 0],
          [intent EXCEPT !.bridge_min_amount = 2],
          [intent EXCEPT !.source_user = Plain("user3")] }
CrossChainIntents ==
    { WellFormedIntent(intent_id, source_user, amount) :
        intent_id \in IntentIds, source_user \in SourceUsers,
        amount \in 1..MaxBridgeAmount } \cup FlawedIntents
\* The default limits, and limits an owner sets: 2 a transaction, 3 a day.
SecurityConfigs ==
    { DefaultSecurityConfig,
      [DefaultSecurityConfig EXCEPT !.max_single_transaction = 2,
                                    !.max_daily_volume = 3] }

NextVerifier ==
    \/ \E intent \in CrossChainIntents, signature_ok \in BOOLEAN,
          bridge_proof \in TxHashes, market_ok \in BOOLEAN,
          solver_account \in Solvers \cup {"mallory"} :
            VerifyAndSolveCrossChain(intent, signature_ok, bridge_proof,
                                     market_ok, solver_account)
    \/ \E intent \in { WellFormedIntent(intent_id, Hex("0xuser1", 42), 1) :
                         intent_id \in IntentIds },
          solver_account \in Solvers :
            VerifyAndSolve(intent, TRUE, solver_account)
    \/ \E caller \in Callers, solver \in Solvers : RegisterSolver(caller, solver)
    \/ \E caller \in Callers, supported_chains \in {{1}, {1, 137}} :
            ConfigureBridge(caller, supported_chains)
    \/ \E caller \in Callers, pause \in BOOLEAN : EmergencyPauseBridge(caller, pause)
    \/ \E caller \in Callers, config \in SecurityConfigs :
            UpdateBridgeSecurityConfig(caller, config)

\* ---------------------- contracts/ctf/src/lib.rs: ConditionalTokenFramework
\* The number of contract calls followed and the largest amount of one call.
MaxCtfCalls == 4
MaxCtfAmount == 2
\* outcome_slot_count of a binary market's condition
OutcomeSlotCount == 2

\* An index set is a bit mask over the outcome slots.
Bits(n) == { i \in 0..(OutcomeSlotCount - 1) : (n \div (2 ^ i)) % 2 = 1 }
RECURSIVE FromBits(_)
FromBits(S) ==
    IF S = {} THEN 0
    ELSE (2 ^ SetMax(S)) + FromBits(S \ {SetMax(S)})
BitAnd(a, b) == FromBits(Bits(a) \cap Bits(b))
BitOr(a, b) == FromBits(Bits(a) \cup Bits(b))

\* ConditionalTokenFramework::new
CtfNew == [ conditions |-> {}, balances |-> EmptyMap, log |-> <<>> ]

\* get_position_id(collateral_token, get_collection_id("", condition_id,
\* [index_set])): the hash names the pair.
PositionId(condition_id, index_set) == <<condition_id, index_set>>

\* balances.get("position_id:account").unwrap_or(U128(0))
BalanceOf(st, position_id, account) ==
    IF <<position_id, account>> \in DOMAIN st.balances
    THEN st.balances[<<position_id, account>>] ELSE 0

prepare_condition(st, condition_id) ==
    IF condition_id \in st.conditions THEN st
    ELSE [st EXCEPT !.conditions = @ \cup {condition_id}]

\* split_position's loop over the partition: covered_outcomes, or -1 when
\* one of its asserts fails.
RECURSIVE CoveredOutcomes(_, _)
CoveredOutcomes(partition, covered_outcomes) ==
    IF partition = <<>> THEN covered_outcomes
    ELSE IF Head(partition) = 0 THEN -1
    ELSE IF BitAnd(Head(partition), covered_outcomes) # 0 THEN -1
    ELSE CoveredOutcomes(Tail(partition),
                         BitOr(covered_outcomes, Head(partition)))

\* "Mint tokens to caller", one position of the partition after the other.
RECURSIVE MintPositions(_, _, _, _, _)
MintPositions(st, caller, condition_id, partition, amount) ==
    IF partition = <<>> THEN st
    ELSE MintPositions(
           [st EXCEPT !.balances =
              MapPut(@, <<PositionId(condition_id, Head(partition)), caller>>,
                     BalanceOf(st, PositionId(condition_id, Head(partition)),
                               caller) + amount)],
           caller, condition_id, Tail(partition), amount)

\* "Burn child position tokens"; None when a balance is insufficient.
RECURSIVE BurnPositions(_, _, _, _, _)
BurnPositions(st, caller, condition_id, partition, amount) ==
    IF partition = <<>> THEN Some(st)
    ELSE IF BalanceOf(st, PositionId(condition_id, Head(partition)), caller)
              < amount
    THEN None
    ELSE BurnPositions(
           [st EXCEPT !.balances =
              MapPut(@, <<PositionId(condition_id, Head(partition)), caller>>,
                     BalanceOf(st, PositionId(condition_id, Head(partition)),
                               caller) - amount)],
           caller, condition_id, Tail(partition), amount)

\* transfer_collateral_from and transfer_collateral_to write a log line; the
\* call to the fungible token contract is commented out.
transfer_collateral_from(st, from, to, amount) ==
    [st EXCEPT !.log = Append(@, [ event |-> "CollateralTransferFrom",
                                   from |-> from, to |-> to,
                                   amount |-> amount ])]

transfer_collateral_to(st, from, to, amount) ==
    [st EXCEPT !.log = Append(@, [ event |-> "CollateralTransferTo",
                                   from |-> from, to |-> to,
                                   amount |-> amount ])]

\* Splitting from the collateral token (parent_collection_id empty).  A
\* failed assert leaves the state as it was.
split_position(st, caller, condition_id, partition, amount) ==
    IF amount = 0 \/ partition = <<>> THEN st
    ELSE IF condition_id \notin st.conditions THEN st
    ELSE IF CoveredOutcomes(partition, 0) # (2 ^ OutcomeSlotCount) - 1 THEN st
    ELSE MintPositions(transfer_collateral_from(st, caller, "ctf", amount),
                       caller, condition_id, partition, amount)

\* A merge that burns the first position of the partition only.
MergeBurningOnePosition(st, caller, condition_id, partition, amount) ==
    IF amount = 0 \/ partition = <<>> THEN st
    ELSE IF condition_id \notin st.conditions THEN st
    ELSE IF BurnPositions(st, caller, condition_id, <<Head(partition)>>, amount) = None
    THEN st
    ELSE transfer_collateral_to(
           Unwrap(BurnPositions(st, caller, condition_id, <<Head(partition)>>, amount)),
           "ctf", caller, amount)

\* Merging to the collateral token (parent_collection_id empty).
merge_positions(st, caller, condition_id, partition, amount) ==
    IF amount = 0 \/ partition = <<>> THEN st
    ELSE IF condition_id \notin st.conditions THEN st
    ELSE IF BurnPositions(st, caller, condition_id, partition, amount) = None
    THEN st
    ELSE transfer_collateral_to(
           Unwrap(BurnPositions(st, caller, condition_id, partition, amount)),
           "ctf", caller, amount)

CtfInit == ctf_state = [ contract |-> CtfNew, calls |-> <<>> ]

\* One call of the contract.  A call that panics leaves no trace; a call that
\* went through is kept with the state it met.
CtfCall(op, caller, condition_id, partition, amount, after) ==
    /\ Len(ctf_state.calls) < MaxCtfCalls
    /\ ctf_state' =
         IF after = ctf_state.contract THEN ctf_state
         ELSE [ contract |-> after,
                calls |-> Append(ctf_state.calls,
                            [ op |-> op, caller |-> caller,
                              condition_id |-> condition_id,
                              partition |-> partition, amount |-> amount,
                              before |-> ctf_state.contract ]) ]
    /\ UNCHANGED <<engine_vars, settle_vars, chain_vars, verifier, bridge_log, near_client>>

PrepareCondition(condition_id) ==
    CtfCall("prepare", "oracle", condition_id, <<>>, 0,
            prepare_condition(ctf_state.contract, condition_id))

SplitPosition(caller, condition_id, partition, amount) ==
    CtfCall("split", caller, condition_id, partition, amount,
            split_position(ctf_state.contract, caller, condition_id,
                           partition, amount))

MergePositions(caller, condition_id, partition, amount) ==
    CtfCall("merge", caller, condition_id, partition, amount,
            merge_positions(ctf_state.contract, caller, condition_id,
                            partition, amount))

\* ---- the calls the contract is driven with ----
CtfConditions == { "c1" }
\* Index sets are bit masks: 1 is the first outcome, 2 the second, 3 both.
Partitions == { <<1, 2>>, <<2, 1>>, <<3>>, <<1>>, <<2>>, <<1, 1>>, <<1, 3>>, <<0>>, <<>> }

NextCtf ==
    \/ \E condition_id \in CtfConditions : PrepareCondition(condition_id)
    \/ \E caller \in Users, condition_id \in CtfConditions \cup {"c9"},
          partition \in Partitions, amount \in 0..MaxCtfAmount :
            SplitPosition(caller, condition_id, partition, amount)
    \/ \E caller \in Users, condition_id \in CtfConditions \cup {"c9"},
          partition \in Partitions, amount \in 0..MaxCtfAmount :
            MergePositions(caller, condition_id, partition, amount)

\* ---------------------------------------------------------------------------
\* The NEAR client of the orderbook service: balance queries with retries and
\* the two transaction paths with the nonce tracker.
\* ---------------------------------------------------------------------------
MaxRetries == 3
MaxClientCalls == 3
MaxNonce == 4
QueriedBalance == 2

\* What the RPC node answers to one view call.
RpcError == [ kind |-> "Error", amount |-> 0 ]
RpcBalance == [ kind |-> "CallResult", amount |-> QueriedBalance ]
RpcUnparsable == [ kind |-> "Unparsable", amount |-> 0 ]
RpcOtherKind == [ kind |-> "OtherKind", amount |-> 0 ]
RpcResponses == { RpcError, RpcBalance, RpcUnparsable, RpcOtherKind }

BalanceOk(amount) == [ ok |-> TRUE, amount |-> amount ]
BalanceErr == [ ok |-> FALSE, amount |-> 0 ]

\* near_client get_usdc_balance: an RPC error is returned, an answer that does
\* not parse as a number and an answer of another kind both become Ok(0).
get_usdc_balance(response) ==
    CASE response.kind = "Error" -> BalanceErr
      [] response.kind = "CallResult" -> BalanceOk(response.amount)
      [] response.kind = "Unparsable" -> BalanceOk(0)
      [] OTHER -> BalanceOk(0)

\* near_client get_ctf_token_balance: the same handling of the answer.
get_ctf_token_balance(response) ==
    CASE response.kind = "Error" -> BalanceErr
      [] response.kind = "CallResult" -> BalanceOk(response.amount)
      [] response.kind = "Unparsable" -> BalanceOk(0)
      [] OTHER -> BalanceOk(0)

\* get_user_usdc_balance: up to MaxRetries attempts, the first Ok is returned,
\* the error of the last attempt is returned after exhaustion.
RECURSIVE UsdcRetry(_, _)
UsdcRetry(responses, attempt) ==
    LET result == get_usdc_balance(responses[attempt])
    IN  IF result.ok THEN result
        ELSE IF attempt < MaxRetries THEN UsdcRetry(responses, attempt + 1)
        ELSE BalanceErr

get_user_usdc_balance(responses) == UsdcRetry(responses, 1)

\* get_token_balance_with_retry: the same loop around get_ctf_token_balance.
RECURSIVE TokenRetry(_, _)
TokenRetry(responses, attempt) ==
    LET result == get_ctf_token_balance(responses[attempt])
    IN  IF result.ok THEN result
        ELSE IF attempt < MaxRetries THEN TokenRetry(responses, attempt + 1)
        ELSE BalanceErr

get_token_balance_with_retry(responses) == TokenRetry(responses, 1)

\* get_user_outcome_token_balance: the condition id, then the YES and the NO
\* balance; one failed side is logged and the other side alone is returned.
get_user_outcome_token_balance(condition_ok, yes_responses, no_responses) ==
    LET yes_balance == get_token_balance_with_retry(yes_responses)
        no_balance == get_token_balance_with_retry(no_responses)
    IN  IF ~condition_ok THEN BalanceErr
        ELSE IF yes_balance.ok /\ no_balance.ok
             THEN BalanceOk(yes_balance.amount + no_balance.amount)
        ELSE IF yes_balance.ok THEN BalanceOk(yes_balance.amount)
        ELSE IF no_balance.ok THEN BalanceOk(no_balance.amount)
        ELSE BalanceErr

\* The balance read at the head of get_real_time_market_balance: USDC for a
\* buy, outcome tokens for a sell; an Err leaves the function through `?`.
QueryMarketBalance(side, condition_ok, usdc_responses, yes_responses, no_responses) ==
    IF side = "Buy" THEN get_user_usdc_balance(usdc_responses)
    ELSE get_user_outcome_token_balance(condition_ok, yes_responses, no_responses)

\* ---- transactions and the nonce tracker ----
TxOk(st) == [ ok |-> TRUE, st |-> st ]
TxErr(st) == [ ok |-> FALSE, st |-> st ]

ClientNew ==
    [ nonce_tracker |-> None, access_key_nonce |-> 0, final_nonce |-> 0,
      built |-> <<>>, calls |-> 0, attempts |-> 0, last_ok |-> FALSE,
      balance_query |-> None ]

\* The access-key view at Finality::Final: the final block may lag the head.
ViewAccessKey(st, settled) ==
    IF settled THEN [st EXCEPT !.final_nonce = st.access_key_nonce] ELSE st

\* One transaction signed with next_nonce, with the tracker as the build left
\* it and whether the build found the tracker empty and asked the network; the
\* chain accepts the transaction when the nonce is above the access key's.
Built(st, path, next_nonce, queried) ==
    [ path |-> path, nonce |-> next_nonce, tracker |-> st.nonce_tracker,
      queried |-> queried, accepted |-> next_nonce > st.access_key_nonce ]

\* call_contract_function_commit with the retry loop; tx_lock is held from the
\* first line to the return.
RECURSIVE CommitLoop(_, _, _)
CommitLoop(st, attempts, inputs) ==
    LET attempt == attempts + 1
        input == inputs[attempt]
        viewed == ViewAccessKey(st, input.settled)
        query_failed == st.nonce_tracker = None /\ input.rpc = "query_error"
        next_nonce == IF st.nonce_tracker # None THEN Unwrap(st.nonce_tracker) + 1
                      ELSE viewed.final_nonce + 1
        tracked == [viewed EXCEPT !.nonce_tracker = Some(next_nonce), !.attempts = attempt]
        sent == [tracked EXCEPT !.built = Append(@, Built(tracked, "commit", next_nonce, st.nonce_tracker = None))]
    IN  IF query_failed THEN TxErr([viewed EXCEPT !.attempts = attempt])
        ELSE IF input.rpc = "query_error" THEN TxErr(tracked)
        ELSE IF input.rpc = "send_error" THEN TxErr(sent)
        ELSE IF next_nonce > st.access_key_nonce
             THEN TxOk([sent EXCEPT !.access_key_nonce = next_nonce])
        ELSE IF attempt < 3
             THEN CommitLoop([sent EXCEPT !.nonce_tracker = None], attempt, inputs)
        ELSE TxErr(sent)

call_contract_function_commit(st, inputs) == CommitLoop(st, 0, inputs)

\* call_contract_function: tx_lock held, the nonce is read from the network
\* every time, sent with broadcast_tx_async; the tracker is not involved.
call_contract_function(st, input) ==
    LET viewed == ViewAccessKey(st, input.settled)
        next_nonce == viewed.final_nonce + 1
        made == Built(viewed, "async", next_nonce, FALSE)
        sent == [viewed EXCEPT !.built = Append(@, made), !.attempts = 1]
    IN  IF input.rpc = "query_error" THEN TxErr([viewed EXCEPT !.attempts = 1])
        ELSE IF input.rpc = "send_error" THEN TxErr(sent)
        ELSE IF made.accepted THEN TxOk([sent EXCEPT !.access_key_nonce = next_nonce])
        ELSE TxOk(sent)

ClientInit == near_client = ClientNew

TxInputs == [ settled : BOOLEAN, rpc : {"ok", "query_error", "send_error"} ]

ClientCall(result) ==
    /\ near_client.calls < MaxClientCalls
    /\ near_client.access_key_nonce < MaxNonce
    /\ near_client' = [result.st EXCEPT !.calls = @ + 1, !.last_ok = result.ok]
    /\ UNCHANGED <<engine_vars, settle_vars, chain_vars, verifier, bridge_log, ctf_state>>

CallContractFunctionCommit(inputs) ==
    ClientCall(call_contract_function_commit(near_client, inputs))

CallContractFunction(input) ==
    ClientCall(call_contract_function(near_client, input))

\* The balance read of get_real_time_market_balance, with the answers the RPC
\* node gives to each attempt; one read is followed.
GetRealTimeMarketBalance(side, condition_ok, usdc_responses, yes_responses, no_responses) ==
    /\ near_client.balance_query = None
    /\ near_client' = [near_client EXCEPT !.balance_query = Some(
           [ side |-> side, condition_ok |-> condition_ok,
             usdc |-> usdc_responses, yes |-> yes_responses, no |-> no_responses,
             result |-> QueryMarketBalance(side, condition_ok, usdc_responses,
                                           yes_responses, no_responses) ])]
    /\ UNCHANGED <<engine_vars, settle_vars, chain_vars, verifier, bridge_log, ctf_state>>

\* ---- the calls the client is driven with ----
AttemptInputs == [ 1..MaxRetries -> TxInputs ]

NextNonce ==
    \/ \E inputs \in AttemptInputs : CallContractFunctionCommit(inputs)
    \/ \E input \in TxInputs : CallContractFunction(input)

\* The answers of the RPC node to the attempts of one query.
AttemptResponses == [ 1..MaxRetries -> RpcResponses ]

NextBalance ==
    \/ \E usdc_responses \in AttemptResponses :
          GetRealTimeMarketBalance("Buy", TRUE, usdc_responses, <<>>, <<>>)
    \/ \E condition_ok \in BOOLEAN, yes_responses \in AttemptResponses,
          no_responses \in AttemptResponses :
          GetRealTimeMarketBalance("Sell", condition_ok, <<>>, yes_responses, no_responses)

\* The other contracts and the client, filled in by their own sections.
ContractInit == VerifierInit /\ CtfInit /\ ClientInit

\* ------------------------------------------------------------ actions
EngineInit ==
    /\ now = 0
    /\ nextId = 1
    /\ db = EmptyMap
    /\ trades = <<>>
    /\ books = EmptyMap
    /\ passed = {}
    /\ reservations = <<>>
    /\ reply = None

\* SettlementManager::run before its first event.
SettleInit ==
    /\ trade_tbl = EmptyMap
    /\ pending_trades = <<>>
    /\ settlement_sequence = 0
    /\ last_pass = [kind |-> "none", calls |-> <<>>]
    /\ assigned = EmptyMap

\* The two token contracts before any transfer of the model.
ChainInit ==
    /\ usdc = [a \in Users |-> 0]
    /\ ctf = [a \in Users |-> 0]
    /\ swap = None

Init == EngineInit /\ SettleInit /\ ChainInit /\ ContractInit

\* One call of MatchingEngine::submit_order has returned r.
Commit(r) ==
    /\ ~r.spins
    /\ nextId' = nextId + 1
    /\ db' = r.db
    /\ books' = r.books
    /\ trades' = trades \o r.trades
    /\ passed' = passed \cup r.ahead
    /\ reservations' = r.reservations
    /\ reply' = Some(r.reply)
    /\ UNCHANGED <<now, settle_vars, chain_vars, contract_vars>>

\* balance is the live balance the chain reports for the order's account
\* and side, fault the ledger call that fails during the submit.
SubmitOrder(order, balance, fault) ==
    Commit(submit_order(order, books, db, reservations, balance, now, fault))

\* POST /orders
HandlerSubmit(request, balance, cap, fault) ==
    /\ nextId <= cap
    /\ validate_order_request(request)
    /\ SubmitOrder(OrderOfRequest(request, nextId), balance, fault)

\* SolverIntegration::process_solver_order
SolverSubmit(solver_order, balance, cap, fault) ==
    /\ nextId <= cap
    /\ validate_order_parameters(OrderOfIntent(solver_order, nextId, now))
    /\ SubmitOrder(OrderOfIntent(solver_order, nextId, now), balance, fault)

\* MatchingEngine::cancel_order
CancelResult(r) ==
    /\ books' = r.books
    /\ db' = r.db
    /\ reservations' = r.reservations
    /\ reply' = Some(r.reply)
    /\ UNCHANGED <<now, nextId, trades, passed, settle_vars, chain_vars, contract_vars>>

CancelOrder(order_id, user_account) ==
    /\ order_id \in DOMAIN db
    /\ CancelResult(execute_order_cancellation_transaction(order_id, user_account, books, db, reservations))

\* storage: Database::get_expired_orders
get_expired_orders(orders_tbl, t) ==
    { id \in DOMAIN orders_tbl :
        /\ orders_tbl[id].expires_at # None
        /\ Unwrap(orders_tbl[id].expires_at) < t
        /\ orders_tbl[id].status \in ActiveStatuses }

RECURSIVE RemoveFromBooks(_, _, _)
RemoveFromBooks(bs, orders_tbl, ids) ==
    IF ids = {} THEN bs
    ELSE LET id == SetMin(ids)
             o == orders_tbl[id].outcome
             bs1 == IF o \in DOMAIN bs
                    THEN [bs EXCEPT ![o] = remove_order(@, id)] ELSE bs
         IN RemoveFromBooks(bs1, orders_tbl, ids \ {id})

\* MatchingEngine::expire_orders, first periodic task of run()
ExpireOrders ==
    LET expired_orders == get_expired_orders(db, now)
    IN /\ books' = RemoveFromBooks(books, db, expired_orders)
       /\ db' = [id \in DOMAIN db |->
                   IF id \in expired_orders
                   THEN [db[id] EXCEPT !.status = "Expired"] ELSE db[id]]
       /\ UNCHANGED <<now, nextId, trades, passed, reservations, reply,
                      settle_vars, chain_vars, contract_vars>>

\* MatchingEngine::cleanup_empty_price_levels, second periodic task of run()
CleanupEmptyPriceLevels ==
    /\ books' = [o \in DOMAIN books |-> cleanup_empty_levels(books[o])]
    /\ UNCHANGED <<now, nextId, db, trades, passed, reservations, reply,
                   settle_vars, chain_vars, contract_vars>>

\* Utc::now advances.
Tick ==
    /\ now < MaxTime
    /\ now' = now + 1
    /\ UNCHANGED <<nextId, db, trades, books, passed, reservations, reply,
                   settle_vars, chain_vars, contract_vars>>

\* ------------------------------- settlement.rs: SettlementManager
TradeTypes == {"DirectMatch", "Minting", "Burning"}
Conditions == {"c1", "c2"}
\* run(): pending_trades.len() >= 10 settles at once.
BatchThreshold == 10

\* Every order in which the elements of S can be listed: the iteration
\* order of a HashMap is not fixed.
Listings(S) ==
    { f \in [1..Cardinality(S) -> S] : \A x \in S : \E i \in DOMAIN f : f[i] = x }

\* Vec::sort_by_key(|(_, sequence)| *sequence), a stable sort of
\* <<trade_id, sequence>> pairs.
RECURSIVE InsertBySequence(_, _)
InsertBySequence(sorted, pair) ==
    IF sorted = <<>> THEN <<pair>>
    ELSE IF Head(sorted)[2] <= pair[2]
    THEN <<Head(sorted)>> \o InsertBySequence(Tail(sorted), pair)
    ELSE <<pair>> \o sorted

RECURSIVE sort_by_key(_)
sort_by_key(pairs) ==
    IF pairs = <<>> THEN <<>>
    ELSE InsertBySequence(sort_by_key(SubSeq(pairs, 1, Len(pairs) - 1)),
                          pairs[Len(pairs)])

TradeIdsOf(pairs) == [i \in DOMAIN pairs |-> pairs[i][1]]

\* InMemoryDatabase::update_trade_settlement_status
update_trade_settlement_status(tbl, trade_id, status, tx_hash) ==
    IF trade_id \in DOMAIN tbl
    THEN [tbl EXCEPT ![trade_id].settlement_status = status,
                     ![trade_id].settlement_tx_hash = tx_hash]
    ELSE tbl

RECURSIVE UpdateAll(_, _, _, _)
UpdateAll(tbl, ids, status, tx_hash) ==
    IF ids = <<>> THEN tbl
    ELSE UpdateAll(update_trade_settlement_status(tbl, Head(ids), status, tx_hash),
                   Tail(ids), status, tx_hash)

\* One call to the chain on behalf of the trades `ids`, as the pass made it.
ChainCall(trade_type, condition_id, ids, ok) ==
    [ trade_type |-> trade_type, condition_id |-> condition_id,
      ids |-> ids, ok |-> ok ]

\* A pass in progress: the trades table and the chain calls made so far.
Pass(tbl, calls) == [ tbl |-> tbl, calls |-> calls ]

\* `bad` is the set of trades whose chain call fails: a bucket's call fails
\* when it carries one of them.
execute_direct_settlement_transaction(st, trade_id, bad) ==
    IF trade_id \in bad
    THEN Pass(update_trade_settlement_status(st.tbl, trade_id, "Settling", None),
              Append(st.calls,
                     ChainCall("DirectMatch", st.tbl[trade_id].condition_id,
                               <<trade_id>>, FALSE)))
    ELSE Pass(update_trade_settlement_status(st.tbl, trade_id, "Settled", Some("tx")),
              Append(st.calls,
                     ChainCall("DirectMatch", st.tbl[trade_id].condition_id,
                               <<trade_id>>, TRUE)))

RECURSIVE DirectLoop(_, _, _)
DirectLoop(st, sorted_trades, bad) ==
    IF sorted_trades = <<>> THEN st
    ELSE DirectLoop(
           execute_direct_settlement_transaction(st, Head(sorted_trades)[1], bad),
           Tail(sorted_trades), bad)

settle_direct_matches_ordered(st, trades_with_sequence, bad) ==
    DirectLoop(st, sort_by_key(trades_with_sequence), bad)

\* All trades of the bucket go to Settling; the chain call follows; on
\* success all of them go to Settled, on failure the `?` returns at once.
ExecuteBucket(st, trade_type, condition_id, ids, bad) ==
    IF \E i \in DOMAIN ids : ids[i] \in bad
    THEN Pass(UpdateAll(st.tbl, ids, "Settling", None),
              Append(st.calls, ChainCall(trade_type, condition_id, ids, FALSE)))
    ELSE Pass(UpdateAll(st.tbl, ids, "Settled", Some("tx")),
              Append(st.calls, ChainCall(trade_type, condition_id, ids, TRUE)))

execute_minting_settlement_transaction(st, condition_id, ids, bad) ==
    ExecuteBucket(st, "Minting", condition_id, ids, bad)

execute_burning_settlement_transaction(st, condition_id, ids, bad) ==
    ExecuteBucket(st, "Burning", condition_id, ids, bad)

\* by_condition[c], in the order the trades were pushed.
BucketOf(tbl, trades_with_sequence, c) ==
    SelectSeq(trades_with_sequence, LAMBDA p : tbl[p[1]].condition_id = c)

\* `order` lists the conditions as the HashMap by_condition yields them.
RECURSIVE settle_minting_trades_ordered(_, _, _, _)
settle_minting_trades_ordered(st, trades_with_sequence, bad, order) ==
    IF order = <<>> THEN st
    ELSE IF BucketOf(st.tbl, trades_with_sequence, Head(order)) = <<>>
    THEN settle_minting_trades_ordered(st, trades_with_sequence, bad, Tail(order))
    ELSE settle_minting_trades_ordered(
           execute_minting_settlement_transaction(st, Head(order),
               TradeIdsOf(sort_by_key(
                   BucketOf(st.tbl, trades_with_sequence, Head(order)))),
               bad),
           trades_with_sequence, bad, Tail(order))

RECURSIVE settle_burning_trades_ordered(_, _, _, _)
settle_burning_trades_ordered(st, trades_with_sequence, bad, order) ==
    IF order = <<>> THEN st
    ELSE IF BucketOf(st.tbl, trades_with_sequence, Head(order)) = <<>>
    THEN settle_burning_trades_ordered(st, trades_with_sequence, bad, Tail(order))
    ELSE settle_burning_trades_ordered(
           execute_burning_settlement_transaction(st, Head(order),
               TradeIdsOf(sort_by_key(
                   BucketOf(st.tbl, trades_with_sequence, Head(order)))),
               bad),
           trades_with_sequence, bad, Tail(order))

OfType(tbl, trades_with_sequence, trade_type) ==
    SelectSeq(trades_with_sequence, LAMBDA p : tbl[p[1]].trade_type = trade_type)

\* The three groups with the direct matches settled first.
SettleDirectFirst(st, minting_trades, direct_matches, burning_trades, bad, mint_order, burn_order) ==
    settle_burning_trades_ordered(
        settle_minting_trades_ordered(
            settle_direct_matches_ordered(st, direct_matches, bad),
            minting_trades, bad, mint_order),
        burning_trades, bad, burn_order)

\* The three groups settled one type after the other; an empty group makes
\* no call.
SettleGroups(st, minting_trades, direct_matches, burning_trades, bad, mint_order, burn_order) ==
    settle_burning_trades_ordered(
        settle_direct_matches_ordered(
            settle_minting_trades_ordered(st, minting_trades, bad, mint_order),
            direct_matches, bad),
        burning_trades, bad, burn_order)

settle_trades_batch_ordered(st, trades_with_sequence, bad, mint_order, burn_order) ==
    SettleGroups(st,
        OfType(st.tbl, sort_by_key(trades_with_sequence), "Minting"),
        OfType(st.tbl, sort_by_key(trades_with_sequence), "DirectMatch"),
        OfType(st.tbl, sort_by_key(trades_with_sequence), "Burning"),
        bad, mint_order, burn_order)

\* InMemoryDatabase::get_failed_trades, as a set: the order of the scan is
\* an input of the retry pass.
get_failed_trades(tbl) ==
    { id \in DOMAIN tbl : tbl[id].settlement_status = "Failed" }

\* `scan` lists the failed trades as get_failed_trades returned them; the
\* i-th of them is reset to Pending and given retry_sequence i.
retry_failed_settlements_ordered(st, scan, bad, mint_order, burn_order) ==
    SettleGroups(Pass(UpdateAll(st.tbl, scan, "Pending", None), st.calls),
        OfType(st.tbl, [i \in DOMAIN scan |-> <<scan[i], i>>], "Minting"),
        OfType(st.tbl, [i \in DOMAIN scan |-> <<scan[i], i>>], "DirectMatch"),
        OfType(st.tbl, [i \in DOMAIN scan |-> <<scan[i], i>>], "Burning"),
        bad, mint_order, burn_order)

\* The trades waiting in pending_trades.
PendingIds == { pending_trades[i][1] : i \in DOMAIN pending_trades }

\* A pass has ended with st.
PassDone(kind, st) ==
    /\ trade_tbl' = st.tbl
    /\ last_pass' = [kind |-> kind, calls |-> st.calls]

\* run(): trade_receiver.recv().  The engine has inserted the trade's row,
\* Pending, before sending the trade (mod.rs:163-168).
Receive(trade_type, condition_id, bad, mint_order, burn_order) ==
    /\ settlement_sequence < MaxSettleTrades
    /\ settlement_sequence' = settlement_sequence + 1
    /\ assigned' = MapPut(assigned, Cardinality(DOMAIN trade_tbl) + 1,
                          settlement_sequence + 1)
    /\ IF Len(pending_trades) + 1 >= BatchThreshold
       THEN /\ pending_trades' = <<>>
            /\ PassDone("flush",
                 settle_trades_batch_ordered(
                   Pass(MapPut(trade_tbl, Cardinality(DOMAIN trade_tbl) + 1,
                          [ trade_type |-> trade_type,
                            condition_id |-> condition_id,
                            settlement_status |-> "Pending",
                            settlement_tx_hash |-> None ]),
                        <<>>),
                   Append(pending_trades,
                          <<Cardinality(DOMAIN trade_tbl) + 1,
                            settlement_sequence + 1>>),
                   bad, mint_order, burn_order))
       ELSE /\ pending_trades' =
                 Append(pending_trades,
                        <<Cardinality(DOMAIN trade_tbl) + 1,
                          settlement_sequence + 1>>)
            /\ trade_tbl' =
                 MapPut(trade_tbl, Cardinality(DOMAIN trade_tbl) + 1,
                        [ trade_type |-> trade_type,
                          condition_id |-> condition_id,
                          settlement_status |-> "Pending",
                          settlement_tx_hash |-> None ])
            /\ UNCHANGED last_pass
    /\ UNCHANGED <<engine_vars, contract_vars, chain_vars>>

\* run(): settlement_timer.tick()
SettlementTick(bad, mint_order, burn_order) ==
    /\ pending_trades # <<>>
    /\ pending_trades' = <<>>
    /\ PassDone("flush",
         settle_trades_batch_ordered(Pass(trade_tbl, <<>>), pending_trades,
                                     bad, mint_order, burn_order))
    /\ UNCHANGED <<engine_vars, contract_vars, chain_vars, settlement_sequence, assigned>>

\* run(): retry_timer.tick()
RetryTick(scan, bad, mint_order, burn_order) ==
    /\ scan \in Listings(get_failed_trades(trade_tbl))
    /\ IF scan = <<>>
       THEN UNCHANGED <<trade_tbl, last_pass>>
       ELSE PassDone("retry",
              retry_failed_settlements_ordered(Pass(trade_tbl, <<>>), scan,
                                               bad, mint_order, burn_order))
    /\ UNCHANGED <<engine_vars, contract_vars, chain_vars, pending_trades, settlement_sequence, assigned>>

\* ------------------------------- collateral/mod.rs: the atomic swap
\* The largest balance an account starts with on either contract.
MaxChainBalance == 2
\* The largest amount of one leg of a swap.
MaxSwapAmount == 2
\* The number of trades settled by a swap.
MaxSwapTrades == 2

SwapOk(value) == [ok |-> TRUE, value |-> value]
SwapErr(message) == [ok |-> FALSE, value |-> message]

\* near_client.call_near_contract(contract, "transfer_from" or
\* "safe_transfer_from", {from, to, value}): the contract moves the value
\* when the call goes through and the sender holds it; a failed call moves
\* nothing.  `ok` is whether the call goes through.
call_near_contract(bal, from, to, value, ok) ==
    IF ok /\ bal[from] >= value
    THEN [ok |-> TRUE,
          bal |-> [[bal EXCEPT ![from] = @ - value] EXCEPT ![to] = @ + value]]
    ELSE [ok |-> FALSE, bal |-> bal]

\* The two balance views and the two comparisons; `view_ok` is whether the
\* view calls answer.
validate_settlement_requirements(us, ct, buyer_account, seller_account, usdc_amount, token_amount, view_ok) ==
    /\ view_ok
    /\ us[buyer_account] >= usdc_amount
    /\ ct[seller_account] >= token_amount

\* A rollback that repeats the first leg instead of reversing it.
RollbackSameWay(us, from_account, to_account, amount, ok) ==
    call_near_contract(us, to_account, from_account, amount, ok)

execute_rollback_transfer(us, from_account, to_account, amount, ok) ==
    call_near_contract(us, from_account, to_account, amount, ok)

\* What a swap leaves behind: the two contracts, the value it returns and
\* the CRITICAL lines it logs.
SwapEnd(us, ct, result, alerts) ==
    [usdc |-> us, ctf |-> ct, result |-> result, alerts |-> alerts]

\* match execute_rollback_transfer(..) { Ok(_) => .., Err(_) => .. }
AfterRollback(rollback, ct, seller_account, usdc_tx_hash) ==
    IF rollback.ok
    THEN SwapEnd(rollback.bal, ct,
                 SwapErr("CTF transfer failed, USDC transfer rolled back"), <<>>)
    ELSE SwapEnd(rollback.bal, ct,
                 SwapErr("CTF transfer failed and rollback failed"),
                 << [ level |-> "CRITICAL",
                      message |-> "Manual intervention required - USDC stuck",
                      account |-> seller_account,
                      tx |-> <<usdc_tx_hash>> ] >>)

\* match ctf_result { Ok(ctf_tx_hash) => .., Err(e) => rollback }
AfterCtfTransfer(us, ctf_result, buyer_account, seller_account, usdc_amount, rollback_ok) ==
    IF ctf_result.ok
    THEN SwapEnd(us, ctf_result.bal,
                 SwapOk("htlc_atomic:usdc_tx:ctf_tx"), <<>>)
    ELSE AfterRollback(
           execute_rollback_transfer(us, seller_account, buyer_account,
                                     usdc_amount, rollback_ok),
           ctf_result.bal, seller_account, "usdc_tx")

\* match usdc_result { Ok(hash) => step 2, Err(e) => return Err }
AfterUsdcTransfer(usdc_result, ct, buyer_account, seller_account, usdc_amount, token_amount, ctf_ok, rollback_ok) ==
    IF ~usdc_result.ok
    THEN SwapEnd(usdc_result.bal, ct, SwapErr("USDC transfer failed"), <<>>)
    ELSE AfterCtfTransfer(usdc_result.bal,
           call_near_contract(ct, seller_account, buyer_account, token_amount,
                              ctf_ok),
           buyer_account, seller_account, usdc_amount, rollback_ok)

\* The swap_id is only written to the log.
execute_htlc_atomic_swap(us, ct, buyer_account, seller_account, usdc_amount, token_amount, view_ok, usdc_ok, ctf_ok, rollback_ok) ==
    IF ~validate_settlement_requirements(us, ct, buyer_account, seller_account,
                                         usdc_amount, token_amount, view_ok)
    THEN SwapEnd(us, ct, SwapErr("Settlement validation failed"), <<>>)
    ELSE AfterUsdcTransfer(
           call_near_contract(us, buyer_account, seller_account, usdc_amount,
                              usdc_ok),
           ct, buyer_account, seller_account, usdc_amount, token_amount,
           ctf_ok, rollback_ok)

\* execute_settlement -> execute_polymarket_complementary_minting, the swap
\* of one trade: `execute_atomic_swap(..).await?`, so the settlement call of
\* the trade's bucket fails exactly when the swap returns Err.
SwapFailures(ended, ids) == IF ended.result.ok THEN {} ELSE ids

\* run(): settlement_timer.tick() with one Minting trade pending, whose
\* settlement runs the swap between the trade's buyer and seller.
SwapSettlementTick(ended, buyer_account, seller_account, usdc_amount, token_amount) ==
    /\ Len(pending_trades) = 1
    /\ usdc' = ended.usdc
    /\ ctf' = ended.ctf
    /\ swap' = Some([ trade_id |-> pending_trades[1][1],
                 buyer_account |-> buyer_account,
                 seller_account |-> seller_account,
                 usdc_amount |-> usdc_amount,
                 token_amount |-> token_amount,
                 result |-> ended.result,
                 alerts |-> ended.alerts,
                 usdc_before |-> usdc,
                 ctf_before |-> ctf ])
    /\ pending_trades' = <<>>
    /\ PassDone("flush",
         settle_trades_batch_ordered(Pass(trade_tbl, <<>>), pending_trades,
                                     SwapFailures(ended, PendingIds),
                                     <<"c1", "c2">>, <<"c1", "c2">>))
    /\ UNCHANGED <<engine_vars, contract_vars, settlement_sequence, assigned>>

\* ------------------------------------------------------ client inputs
TypedPrices(types, prices) ==
    { <<ty, p>> \in types \X (prices \cup {0}) : (ty = "Market") <=> (p = 0) }

\* Only Good-Till-Date requests carry an expiry here.
RequestsOf(users, types, outcomes, prices, sizes) ==
    { r \in
        { [ user_account |-> u, outcome |-> o, side |-> s,
            order_type |-> tp[1],
            price |-> IF tp[2] = 0 THEN None ELSE Some(tp[2]),
            size |-> n, expires_at |-> e ] :
          u \in users, o \in outcomes, s \in Sides,
          tp \in TypedPrices(types, prices), n \in sizes,
          e \in {None, Some(0)} } :
      r.expires_at # None => r.order_type = "GTD" }

Requests == RequestsOf(Users, OrderTypes, Outcomes, Prices, 1..MaxSize)

\* One trader's limit orders on the YES book.
BookRequests ==
    RequestsOf({"alice"}, {"Limit"}, {YES}, BookPrices, 1..MaxBookSize)

SolverOrders ==
    { [ user |-> u, outcome |-> o, side |-> s, order_type |-> tp[1],
        price |-> tp[2], amount |-> n, filled_amount |-> f[1], status |-> f[2],
        expires_at |-> 0 ] :
      u \in Users, o \in Outcomes, s \in Sides,
      tp \in TypedPrices({"Market", "Limit"}, Prices), n \in 1..MaxSize,
      f \in {<<0, "Pending">>, <<1, "PartiallyFilled">>} }

\* Spec, SpecBook and SpecCancel follow the calls that succeed: a call that
\* returns an error there leaves everything but the reply as it was.  The
\* calls that fail are followed in SpecFunds.
Next ==
    \/ \E request \in Requests :
         HandlerSubmit(request, AmpleBalance, MaxOrders, "none")
    \/ \E solver_order \in SolverOrders :
         SolverSubmit(solver_order, AmpleBalance, MaxOrders, "none")
    \/ \E id \in DOMAIN db, u \in Users :
         CancelOrder(id, u) /\ reply' = Some(Ok)
    \/ ExpireOrders
    \/ CleanupEmptyPriceLevels
    \/ Tick

Spec == Init /\ [][Next]_vars

\* A single book driven deeper: limit orders of one trader on one outcome.
NextBook ==
    \/ \E request \in BookRequests :
         HandlerSubmit(request, AmpleBalance, MaxBookOrders, "none")
    \/ CleanupEmptyPriceLevels

SpecBook == Init /\ [][NextBook]_vars

\* The same book with cancellation, over fewer orders.
NextCancel ==
    \/ \E request \in BookRequests :
         HandlerSubmit(request, AmpleBalance, MaxCancelOrders, "none")
    \/ \E id \in DOMAIN db :
         CancelOrder(id, db[id].user_account) /\ reply' = Some(Ok)
    \/ CleanupEmptyPriceLevels

SpecCancel == Init /\ [][NextCancel]_vars

\* Funds: what the chain holds for each account, USDC and outcome tokens.
\* No deposit, withdrawal or settlement happens during a behaviour of
\* SpecFunds, so every balance lookup of an account gets the same answer.
usdc_balance == [alice |-> 3, bob |-> 2]
token_balance == [alice |-> 5, bob |-> 0]

LiveBalance(account_id, side) ==
    IF side = "Buy" THEN usdc_balance[account_id]
    ELSE token_balance[account_id]

FundSizes == {3, 5}
FundRequests == RequestsOf(Users, {"Limit"}, Outcomes, Prices, FundSizes)

\* Limit orders against fixed funds, with cancels by anyone and failing
\* ledger calls; the calls that return an error are steps here.
NextFunds ==
    \/ \E request \in FundRequests, fault \in Faults :
         HandlerSubmit(request,
                       LiveBalance(request.user_account, request.side),
                       MaxFundOrders, fault)
    \/ \E id \in DOMAIN db, u \in Users : CancelOrder(id, u)

SpecFunds == Init /\ [][NextFunds]_vars

\* Submits only, of one size at one price: each account can afford either
\* every order of a side or none.
FewRequests == RequestsOf(Users, {"Limit"}, Outcomes, {60000}, {5})

NextRefuse ==
    \E request \in FewRequests, fault \in Faults :
        HandlerSubmit(request,
                      LiveBalance(request.user_account, request.side),
                      MaxFundOrders, fault)

SpecRefuse == Init /\ [][NextRefuse]_vars

\* Two accounts trading one size at one price, with cancels by anyone; the
\* cancels that return an error are steps here.
OwnerRequests == RequestsOf(Users, {"Limit"}, Outcomes, {60000}, {3})

NextOwner ==
    \/ \E request \in OwnerRequests :
         HandlerSubmit(request, AmpleBalance, MaxFundOrders, "none")
    \/ \E id \in DOMAIN db, u \in Users : CancelOrder(id, u)

SpecOwner == Init /\ [][NextOwner]_vars

\* Intents the solver relays with a settled status: SolverOrderStatus has
\* Filled, Cancelled and Expired, and process_solver_order maps each.
SettledIntents ==
    { [ user |-> u, outcome |-> o, side |-> s, order_type |-> "Limit",
        price |-> p, amount |-> n,
        filled_amount |-> IF st = "Filled" THEN n ELSE 0, status |-> st,
        expires_at |-> 0 ] :
      u \in Users, o \in Outcomes, s \in Sides, p \in Prices,
      n \in 1..MaxSize, st \in {"Filled", "Cancelled", "Expired"} }

\* The solver facade alone, relaying intents of every status.
NextSolver ==
    \/ \E solver_order \in SolverOrders \cup SettledIntents :
         SolverSubmit(solver_order, AmpleBalance, MaxOrders, "none")
    \/ \E id \in DOMAIN db, u \in Users :
         CancelOrder(id, u) /\ reply' = Some(Ok)

SpecSolver == Init /\ [][NextSolver]_vars

\* Admission of prices: priced orders of one account at prices on and off
\* the tick grid and at both ends of the range, through the HTTP handler
\* and through the solver facade.
TickPrices == {0, 100, 1050, 50000, 100000}
TickRequests ==
    { [ user_account |-> "alice", outcome |-> o, side |-> s,
        order_type |-> ty, price |-> Some(p), size |-> 1,
        expires_at |-> None ] :
      o \in Outcomes, s \in Sides, ty \in PricedTypes, p \in TickPrices }

TickIntents ==
    { [ user |-> "alice", outcome |-> o, side |-> s, order_type |-> ty,
        price |-> p, amount |-> 1, filled_amount |-> 0, status |-> "Pending",
        expires_at |-> 0 ] :
      o \in Outcomes, s \in Sides, ty \in PricedTypes, p \in TickPrices }

NextTick ==
    \/ \E request \in TickRequests :
         HandlerSubmit(request, AmpleBalance, MaxTickOrders, "none")
    \/ \E solver_order \in TickIntents :
         SolverSubmit(solver_order, AmpleBalance, MaxTickOrders, "none")

SpecTick == Init /\ [][NextTick]_vars

\* The settlement manager alone: trades arrive, the two timers tick, and
\* any chain call may fail.
TradeReceived ==
    \E trade_type \in TradeTypes, condition_id \in Conditions :
      \E bad \in (IF Len(pending_trades) + 1 >= BatchThreshold
                  THEN SUBSET (PendingIds \cup {Cardinality(DOMAIN trade_tbl) + 1})
                  ELSE {{}}) :
        \E mint_order \in (IF Len(pending_trades) + 1 >= BatchThreshold
                           THEN Listings(Conditions) ELSE {<<>>}) :
          Receive(trade_type, condition_id, bad, mint_order, mint_order)

SettlementTimer ==
    \E bad \in SUBSET PendingIds :
      \E mint_order \in Listings(Conditions), burn_order \in Listings(Conditions) :
        SettlementTick(bad, mint_order, burn_order)

RetryTimer ==
    \E scan \in Listings(get_failed_trades(trade_tbl)) :
      \E bad \in SUBSET get_failed_trades(trade_tbl) :
        \E mint_order \in Listings(Conditions), burn_order \in Listings(Conditions) :
          RetryTick(scan, bad, mint_order, burn_order)

NextSettle == TradeReceived \/ SettlementTimer \/ RetryTimer

SpecSettle == Init /\ [][NextSettle]_vars

\* A ledger that already holds trades marked Failed, which is what the
\* retry pass scans for: trade i was enqueued with sequence i.
FailedTables ==
    UNION { [ 1..n -> [ trade_type : TradeTypes, condition_id : Conditions,
                        settlement_status : {"Failed"},
                        settlement_tx_hash : {None} ] ] :
            n \in 2..MaxSettleTrades }

RetryInit ==
    /\ EngineInit
    /\ ChainInit
    /\ ContractInit
    /\ trade_tbl \in FailedTables
    /\ pending_trades = <<>>
    /\ settlement_sequence = Cardinality(DOMAIN trade_tbl)
    /\ last_pass = [kind |-> "none", calls |-> <<>>]
    /\ assigned = [id \in DOMAIN trade_tbl |-> id]

SpecRetry == RetryInit /\ [][NextSettle]_vars

\* One Minting trade at a time arrives and is settled by a swap; the
\* accounts start with any balances on the two contracts.
MintingTradeReceived ==
    /\ pending_trades = <<>>
    /\ settlement_sequence < MaxSwapTrades
    /\ Receive("Minting", "c1", {}, <<>>, <<>>)

SwapSettlementTimer ==
    \E buyer_account \in Users, seller_account \in Users :
      \E usdc_amount \in 1..MaxSwapAmount, token_amount \in 1..MaxSwapAmount :
        \E view_ok \in BOOLEAN, usdc_ok \in BOOLEAN, ctf_ok \in BOOLEAN, rollback_ok \in BOOLEAN :
          SwapSettlementTick(
            execute_htlc_atomic_swap(usdc, ctf, buyer_account, seller_account,
                                     usdc_amount, token_amount,
                                     view_ok, usdc_ok, ctf_ok, rollback_ok),
            buyer_account, seller_account, usdc_amount, token_amount)

NextSwap == MintingTradeReceived \/ SwapSettlementTimer

SwapInit ==
    /\ EngineInit
    /\ SettleInit
    /\ ContractInit
    /\ usdc \in [Users -> 0..MaxChainBalance]
    /\ ctf \in [Users -> 0..MaxChainBalance]
    /\ swap = None

SpecSwap == SwapInit /\ [][NextSwap]_vars

\* ============================================================ claims
\* Views of the state used by the properties below.
AllBooks == { books[o] : o \in DOMAIN books }

QueuesOf(b) ==
    { b.bid_orders[p] : p \in DOMAIN b.bid_orders }
        \cup { b.ask_orders[p] : p \in DOMAIN b.ask_orders }

QueueEntries(b) == UNION { { q[i] : i \in DOMAIN q } : q \in QueuesOf(b) }

\* Every copy of an order the engine holds: ledger rows, order maps, queues.
OrderCopies ==
    { db[i] : i \in DOMAIN db }
        \cup UNION { { b.orders[i] : i \in DOMAIN b.orders } : b \in AllBooks }
        \cup UNION { QueueEntries(b) : b \in AllBooks }

\* A trade made by complementary matching: its maker rests in the book of
\* the other outcome than the one the trade is recorded under.
IsComplementary(trade) == db[trade.maker_order_id].outcome # trade.outcome

\* C1: every trade, from regular or from complementary matching, carries
\* the price of its resting maker order, never the taker's.
TradePriceIsMakerPrice ==
    \A i \in DOMAIN trades :
        trades[i].price = db[trades[i].maker_order_id].price

\* C2: every copy of every order (ledger row, order map, queue entry)
\* satisfies original_size = remaining_size + filled_size.
SizeConservation ==
    \A o \in OrderCopies : o.original_size = o.remaining_size + o.filled_size

\* Prices of one side at which an order is really resting: the price has a
\* level and a queue, and the queue holds an order of the book's order map.
RestingPrices(b, side) ==
    { p \in (DOMAIN Levels(b, side)) \cap (DOMAIN Queues(b, side)) :
        \E i \in DOMAIN Queues(b, side)[p] :
            Queues(b, side)[p][i].order_id \in DOMAIN b.orders }

\* C3: in every book the highest resting bid price is strictly below the
\* lowest resting ask price.
NoCrossedBook ==
    \A b \in AllBooks :
        \A pb \in RestingPrices(b, "Buy"), pa \in RestingPrices(b, "Sell") :
            pb < pa

\* C4: strict price-time priority: no maker is ever matched while another
\* order of its side rests in the same book at a better price, or at the
\* same price with an earlier submission.
StrictPriceTimePriority == passed = {}

\* Total size traded by an order, as maker or as taker.
RECURSIVE TradedSize(_, _)
TradedSize(id, ts) ==
    IF ts = <<>> THEN 0
    ELSE (IF id \in {Head(ts).maker_order_id, Head(ts).taker_order_id}
          THEN Head(ts).size ELSE 0) + TradedSize(id, Tail(ts))

WasMaker(id) == \E i \in DOMAIN trades : trades[i].maker_order_id = id

\* Order o rests in its outcome's book of bs at its price, with the given
\* remaining size.
RestsIn(bs, o, remaining) ==
    /\ o.outcome \in DOMAIN bs
    /\ o.price \in DOMAIN Levels(bs[o.outcome], o.side)
    /\ o.price \in DOMAIN Queues(bs[o.outcome], o.side)
    /\ \E e \in QueueEntries(bs[o.outcome]) :
          e.order_id = o.order_id /\ e.remaining_size = remaining

\* C5: a resting order that incoming orders have filled only in part, and
\* that was not cancelled or expired, still rests in the book at its price
\* with its reduced remaining size.
PartialFillKeepsResting ==
    \A id \in DOMAIN db :
        ( /\ WasMaker(id)
          /\ TradedSize(id, trades) < db[id].original_size
          /\ db[id].status \in ActiveStatuses )
        => RestsIn(books, db[id],
                   db[id].original_size - TradedSize(id, trades))

InNoBook(bs, id) ==
    \A o \in DOMAIN bs :
        /\ id \notin DOMAIN bs[o].orders
        /\ \A e \in QueueEntries(bs[o]) : e.order_id # id

\* The book of an outcome, an empty one if the outcome has none yet.
BookView(bs, o) == IF o \in DOMAIN bs THEN bs[o] ELSE NewBook

\* The step admits one order; the order is db'[nextId].
IsSubmit == nextId' = nextId + 1 /\ nextId \in DOMAIN db' 

\* C7 scenario: a lone Buy YES at 60000 rests, then a Buy NO of the same
\* size at 40000 is submitted, both plain limit orders.
MintScenario ==
    /\ nextId = 2
    /\ IsSubmit
    /\ 1 \in DOMAIN db
    /\ db[1].user_account # db'[2].user_account
    /\ db[1].outcome = YES /\ db[1].side = "Buy" /\ db[1].price = 60000
    /\ db[1].order_type \in {"Limit", "GTC"} /\ db[1].status = "Pending"
    /\ db[1].filled_size = 0
    /\ 1 \in DOMAIN BookView(books, YES).orders
    /\ db'[2].outcome = NO /\ db'[2].side = "Buy" /\ db'[2].price = 40000
    /\ db'[2].order_type \in {"Limit", "GTC"}
    /\ db'[2].original_size = db[1].original_size
    /\ db'[2].filled_size + db'[2].remaining_size = db'[2].original_size

\* C7: that submit emits exactly one trade, a Minting trade of the full
\* size, and afterwards both orders are Filled and neither rests in a book.
MintFillsBoth ==
    [][ MintScenario =>
          /\ Len(trades') = 1
          /\ trades'[1].trade_type = "Minting"
          /\ trades'[1].size = db[1].original_size
          /\ db'[1].status = "Filled" /\ db'[2].status = "Filled"
          /\ InNoBook(books', 1) /\ InNoBook(books', 2) ]_vars

\* Same-side orders queued in the book of the other outcome: the makers
\* complementary matching could pair the order with.
ComplementaryMakers(bs, o) ==
    { e \in QueueEntries(BookView(bs, 1 - o.outcome)) : e.side = o.side }

\* No level of the opposing side of the order's own book is at a price the
\* order could trade at.
NothingToTrade(bs, o) ==
    \A p \in DOMAIN Levels(BookView(bs, o.outcome), OppositeSide(o.side)) :
        ~PriceCrosses(o, p)

\* C8 scenario: a plain limit order is submitted; the other outcome's book
\* holds makers for it, each at a price that with the order's price exceeds
\* 100000; its own book offers nothing to trade against.
OverDollarScenario ==
    /\ IsSubmit
    /\ db'[nextId].order_type \in {"Limit", "GTC"}
    /\ ComplementaryMakers(books, db'[nextId]) # {}
    /\ \A e \in ComplementaryMakers(books, db'[nextId]) :
          db'[nextId].price + e.price > FullDollar
    /\ NothingToTrade(books, db'[nextId])

RECURSIVE SumRemaining(_)
SumRemaining(q) ==
    IF q = <<>> THEN 0 ELSE Head(q).remaining_size + SumRemaining(Tail(q))

RECURSIVE SumQueues(_, _)
SumQueues(qs, prices) ==
    IF prices = {} THEN 0
    ELSE LET p == SetMin(prices)
         IN SumRemaining(qs[p]) + SumQueues(qs, prices \ {p})

\* What the queues of the opposing side hold at prices the order accepts.
CompatibleLiquidity(b, o) ==
    SumQueues(Queues(b, OppositeSide(o.side)),
              { p \in DOMAIN Queues(b, OppositeSide(o.side)) :
                  PriceCrosses(o, p) })

\* C9 scenario: a Fill-or-Kill order larger than the compatible opposing
\* liquidity of its book is submitted, with no complementary maker at hand.
KillScenario ==
    /\ IsSubmit
    /\ db'[nextId].order_type = "FOK"
    /\ db'[nextId].original_size
         > CompatibleLiquidity(BookView(books, db'[nextId].outcome),
                               db'[nextId])
    /\ ComplementaryMakers(books, db'[nextId]) = {}

\* C9: then no trade is emitted, every book and every earlier order row is
\* exactly as before, and the order itself rests in no book.
KillChangesNothing ==
    [][ KillScenario =>
          /\ trades' = trades
          /\ \A o \in Outcomes : BookView(books', o) = BookView(books, o)
          /\ \A id \in DOMAIN db : db'[id] = db[id]
          /\ InNoBook(books', nextId) ]_vars

\* C10: an order of type Market or FAK never rests in a book, whatever was
\* left unfilled.
TakerOnlyNeverRests ==
    \A id \in DOMAIN db :
        db[id].order_type \in {"Market", "FAK"} => InNoBook(books, id)

\* ------------------------------------------------ collateral claims
\* What check_and_reserve_balance reserved for the order when it was
\* submitted: its requirement at its full size.
ReservedAtSubmit(o) ==
    calculate_required_balance([o EXCEPT !.remaining_size = o.original_size])

\* The open orders of an account on one side, by the ledger.
OpenOrders(orders_tbl, account_id, side) ==
    { id \in DOMAIN orders_tbl :
        /\ orders_tbl[id].user_account = account_id
        /\ orders_tbl[id].side = side
        /\ orders_tbl[id].status \in ActiveStatuses }

RECURSIVE SumReserved(_, _)
SumReserved(orders_tbl, ids) ==
    IF ids = {} THEN 0
    ELSE ReservedAtSubmit(orders_tbl[SetMin(ids)])
           + SumReserved(orders_tbl, ids \ {SetMin(ids)})

\* C11: for every account, the amounts reserved for its open Buy orders
\* add up to at most the USDC the account holds.
ReservationSoundness ==
    \A u \in Users :
        SumReserved(db, OpenOrders(db, u, "Buy")) <= usdc_balance[u]

\* The step is the submit of this request against the account's funds.
IsSubmitOf(request, fault) ==
    HandlerSubmit(request, LiveBalance(request.user_account, request.side), MaxFundOrders, fault)

\* What the account can still commit on the request's side: its funds less
\* what is reserved for its open orders of that side.
Uncommitted(request) ==
    LiveBalance(request.user_account, request.side)
      - SumReserved(db, OpenOrders(db, request.user_account, request.side))

Requirement(request) ==
    calculate_required_balance(OrderOfRequest(request, nextId))

\* C12: a submit whose requirement exceeds the funds of the account less
\* what is reserved for its open orders writes no reservation.
ReserveNeedsFunds ==
    [][ \A request \in FundRequests :
          ( /\ Uncommitted(request) < Requirement(request)
            /\ IsSubmitOf(request, "none") )
          => reservations' = reservations ]_vars

\* Total of the reservation rows the ledger holds for an account and side.
RECURSIVE SumRows(_, _, _)
SumRows(rows, account_id, side) ==
    IF rows = <<>> THEN 0
    ELSE (IF Head(rows).account_id = account_id /\ Head(rows).side = side
          THEN Head(rows).reserved_amount ELSE 0)
           + SumRows(Tail(rows), account_id, side)

\* A Buy order that rests untouched: Pending, nothing filled, in its book.
RestsUntouched(id) ==
    /\ db[id].status = "Pending" /\ db[id].side = "Buy"
    /\ db[id].filled_size = 0
    /\ id \in DOMAIN BookView(books, db[id].outcome).orders

\* C13: when the owner cancels a resting Pending Buy order of size s at
\* price p, the order becomes Cancelled and the reservations held for the
\* owner go down by floor(p*s/100000): the whole reservation is returned.
CancelReleases ==
    [][ \A id \in DOMAIN db :
          ( RestsUntouched(id) /\ CancelOrder(id, db[id].user_account) )
          => /\ db'[id].status = "Cancelled"
             /\ SumRows(reservations', db[id].user_account, "Buy")
                  = SumRows(reservations, db[id].user_account, "Buy")
                      - ReservedAtSubmit(db[id]) ]_vars

\* The step is a submit call (an identifier was drawn for its order).
IsSubmitCall == nextId' = nextId + 1

\* Nothing of the submit remains: no reservation, order row, book change
\* or trade.
NothingRemains ==
    /\ reservations' = reservations
    /\ db' = db
    /\ books' = books
    /\ trades' = trades

\* C14: a submit that returns an error leaves no reservation, order row,
\* book change or trade behind; one that returns its trades has written
\* its reservation and its order row.
SubmitAllOrNothing ==
    [][ IsSubmitCall =>
          IF reply' = Some(Ok)
          THEN /\ nextId \in DOMAIN db'
               /\ Len(reservations') = Len(reservations) + 1
          ELSE NothingRemains ]_vars

MovesForward(before, after) ==
    \/ after = before
    \/ before = "Pending"
    \/ before = "PartiallyFilled" /\ after \in {"Filled", "Cancelled", "Expired"}

\* C16: the status of an order in the ledger only moves forward: a Filled,
\* Cancelled or Expired order keeps its status, and a PartiallyFilled order
\* never returns to Pending.
StatusMonotone ==
    [][ \A id \in DOMAIN db :
          id \in DOMAIN db' /\ MovesForward(db[id].status, db'[id].status) ]_vars

\* C17: in every copy of every order (ledger row, order map, queue),
\* remaining_size is 0 exactly when the status is Filled.
FilledIffNothingRemains ==
    \A o \in OrderCopies : (o.remaining_size = 0) <=> (o.status = "Filled")

\* --------------------------------------------------- cancel claims
\* C18: when the owner cancels an order that is already Cancelled, the call
\* returns without error and changes neither the ledger, the books, the
\* reservations nor the trades.
CancelIdempotent ==
    [][ \A id \in DOMAIN db :
          ( /\ db[id].status = "Cancelled"
            /\ CancelOrder(id, db[id].user_account) )
          => /\ reply' = Some(Ok)
             /\ UNCHANGED <<db, books, reservations, trades>> ]_vars

ExpiredGTDRejected ==
    [][ ~ ( /\ IsSubmit
            /\ db'[nextId].order_type = "GTD"
            /\ \E e \in db'[nextId].expires_at : e <= now ) ]_vars

\* --------------------------------------------------- price claims
\* C21: every priced order admitted into the engine, by the HTTP handler or
\* by the solver facade, has a price that is an exact multiple of the tick
\* applicable to it.
AdmittedOnTick ==
    \A o \in OrderCopies :
        o.order_type # "Market" => o.price % get_tick_size(o.price) = 0

\* C22: no priced order with a price outside [1, 99999] is admitted: none
\* is in the ledger or in a book.
AdmittedWithinRange ==
    \A o \in OrderCopies :
        o.order_type # "Market" => (o.price >= 1 /\ o.price <= MaxPrice)

\* --------------------------------------------------- level claims
RECURSIVE SumLevels(_, _)
SumLevels(lv, prices) ==
    IF prices = {} THEN 0
    ELSE lv[SetMin(prices)].size + SumLevels(lv, prices \ {SetMin(prices)})

\* The aggregate size of the opposing levels at prices the order accepts.
CompatibleLevelSize(b, o) ==
    SumLevels(Levels(b, OppositeSide(o.side)),
              { p \in DOMAIN Levels(b, OppositeSide(o.side)) :
                  PriceCrosses(o, p) })

\* No level of any book has aggregate size 0.
NoEmptyLevel(bs) ==
    \A o \in DOMAIN bs, side \in Sides :
        \A p \in DOMAIN Levels(bs[o], side) : Levels(bs[o], side)[p].size > 0

\* An order is submitted whose size is exactly what the opposing side of
\* its book offers at prices it accepts, by the level aggregates and by the
\* queues alike, none of it expired.
ExactFillScenario ==
    /\ IsSubmit
    /\ db'[nextId].original_size = db'[nextId].filled_size + db'[nextId].remaining_size
    /\ db'[nextId].original_size
         = CompatibleLevelSize(BookView(books, db'[nextId].outcome), db'[nextId])
    /\ db'[nextId].original_size
         = CompatibleLiquidity(BookView(books, db'[nextId].outcome), db'[nextId])
    /\ \A e \in QueueEntries(BookView(books, db'[nextId].outcome)) :
          ~IsExpired(e, now)

\* C23: an order sized exactly as the price-compatible opposing book fills
\* completely in its submit and does not rest, and no book is ever left
\* with a price level of aggregate size 0.
ExactFillClearsLevels ==
    [][ /\ ExactFillScenario =>
             /\ db'[nextId].remaining_size = 0
             /\ InNoBook(books', nextId)
        /\ NoEmptyLevel(books') ]_vars

\* --------------------------------------------------- eviction claims
\* During this submit the resting order `id`, past its expires_at, leaves
\* its book without being the maker of any trade of the submit.
EvictedDuringMatch(id) ==
    /\ IsSubmit
    /\ IsExpired(db[id], now)
    /\ db[id].status \in ActiveStatuses
    /\ id \in DOMAIN BookView(books, db[id].outcome).orders
    /\ InNoBook(books', id)
    /\ \A i \in (Len(trades) + 1)..Len(trades') :
          trades'[i].maker_order_id # id

\* What the submit reserved for its own order on the account and side of
\* the order `id`.
ReservedByTaker(id) ==
    IF /\ db'[nextId].user_account = db[id].user_account
       /\ db'[nextId].side = db[id].side
    THEN ReservedAtSubmit(db'[nextId]) ELSE 0

\* C24: a resting order evicted from its price level during a match pass
\* because it is past its expires_at has its status set to Expired and its
\* reservation released.
EvictedBecomesExpired ==
    [][ \A id \in DOMAIN db :
          EvictedDuringMatch(id)
          => /\ db'[id].status = "Expired"
             /\ SumRows(reservations', db[id].user_account, db[id].side)
                  = SumRows(reservations, db[id].user_account, db[id].side)
                      - ReservedAtSubmit(db[id]) + ReservedByTaker(id) ]_vars

\* --------------------------------------------------- settlement claims
\* The trades carried by the chain calls of the last pass that failed.
FailedInLastPass ==
    UNION { { c.ids[k] : k \in DOMAIN c.ids } :
            c \in { last_pass.calls[i] : i \in { n \in DOMAIN last_pass.calls :
                                                   ~last_pass.calls[n].ok } } }

\* C25: once a pass is over, every trade of a bucket whose settlement call
\* failed is Failed, and no trade is left in Settling.
SettlingResolved ==
    /\ \A id \in FailedInLastPass :
          trade_tbl[id].settlement_status = "Failed"
    /\ \A id \in DOMAIN trade_tbl :
          trade_tbl[id].settlement_status # "Settling"

\* The trades some chain call of the last pass was made for.
AttemptedInLastPass ==
    UNION { { last_pass.calls[i].ids[k] : k \in DOMAIN last_pass.calls[i].ids } :
            i \in DOMAIN last_pass.calls }

\* The settlement of the trade was attempted and did not succeed.
AttemptFailed(id) ==
    /\ id \in DOMAIN trade_tbl
    /\ trade_tbl[id].settlement_status \in {"Settling", "Failed"}

\* The retry timer's next tick can run a retry pass that attempts the trade.
RetryWouldAttempt(id) ==
    ENABLED ( /\ RetryTimer
              /\ last_pass'.kind = "retry"
              /\ id \in AttemptedInLastPass' )

\* C26: a flush attempts every trade it drained, whatever failed before
\* it in the flush, and whenever the settlement attempt of a trade has
\* failed, the next tick of the retry timer attempts the trade again.
FailedTradesRetried ==
    /\ [][ (pending_trades # <<>> /\ pending_trades' = <<>>)
            => PendingIds \subseteq AttemptedInLastPass' ]_vars
    /\ [](\A id \in DOMAIN trade_tbl :
            AttemptFailed(id) => RetryWouldAttempt(id))

\* Trade a was handed to the chain before trade b in the last pass: in an
\* earlier call, or earlier in the same call.
SettledBefore(a, b) ==
    \E i \in DOMAIN last_pass.calls, j \in DOMAIN last_pass.calls :
        \E k \in DOMAIN last_pass.calls[i].ids, l \in DOMAIN last_pass.calls[j].ids :
            /\ last_pass.calls[i].ids[k] = a
            /\ last_pass.calls[j].ids[l] = b
            /\ (i < j \/ (i = j /\ k < l))

TypeRank(trade_type) ==
    IF trade_type = "Minting" THEN 1
    ELSE IF trade_type = "DirectMatch" THEN 2 ELSE 3

LastSwap == Unwrap(swap)
RolledBack == swap # None /\ LastSwap.result = SwapErr("CTF transfer failed, USDC transfer rolled back")

SwapSucceeded == LastSwap.result.ok
SwapFailedCleanly ==
    LastSwap.result \in { SwapErr("Settlement validation failed"),
                      SwapErr("USDC transfer failed"),
                      SwapErr("CTF transfer failed, USDC transfer rolled back") }
SwapStuck == LastSwap.result = SwapErr("CTF transfer failed and rollback failed")

\* C30: every atomic swap ends in one recorded outcome: on success its
\* trade is Settled, when step A failed or step B failed and the rollback
\* succeeded its trade is Failed, and when step B and the rollback both
\* failed the swap is reported stuck with both transaction references; the
\* trade is never left in a state that is not final.
SwapOutcomeRecorded ==
    swap # None =>
      /\ SwapSucceeded => trade_tbl[LastSwap.trade_id].settlement_status = "Settled"
      /\ SwapFailedCleanly => trade_tbl[LastSwap.trade_id].settlement_status = "Failed"
      /\ SwapStuck =>
           /\ \E i \in DOMAIN LastSwap.alerts : Len(LastSwap.alerts[i].tx) = 2
           /\ trade_tbl[LastSwap.trade_id].settlement_status \in {"Settled", "Failed"}

\* --------------------------------------------------- trade size claims
\* C37: for every order, the sizes of all the trades it takes part in, as
\* maker or as taker, regular or complementary, sum to at most its
\* original_size.
TradedWithinOriginalSize ==
    \A id \in DOMAIN db : TradedSize(id, trades) <= db[id].original_size

\* --------------------------------------------------- queue claims
\* The places of a book's FIFO queues: <<side, price, index>>.
Slots(b) ==
    UNION { UNION { { <<side, p, i>> : i \in DOMAIN Queues(b, side)[p] } :
                    p \in DOMAIN Queues(b, side) } :
            side \in Sides }

SlotOrder(b, s) == Queues(b, s[1])[s[2]][s[3]]

\* C38: each order id holds at most one place across all the FIFO queues
\* of a book: the remainder of a submitted order is enqueued once.
EnqueuedOnce ==
    \A b \in AllBooks :
      \A s \in Slots(b), t \in Slots(b) :
        SlotOrder(b, s).order_id = SlotOrder(b, t).order_id => s = t

\* The queue kept at a price level, empty when the book keeps none there.
QueueAt(b, side, p) ==
    IF p \in DOMAIN Queues(b, side) THEN Queues(b, side)[p] ELSE <<>>

\* C39: at every price level of every book, the level's size is the sum of
\* remaining_size of the orders queued at that price and its order_count is
\* the number of orders in that queue.
LevelMatchesQueue ==
    \A b \in AllBooks :
      \A side \in Sides :
        \A p \in DOMAIN Levels(b, side) :
          /\ Levels(b, side)[p].size = SumRemaining(QueueAt(b, side, p))
          /\ Levels(b, side)[p].order_count = Len(QueueAt(b, side, p))

\* ---------------------------------------------------------------------------
\* The verifier contract on its own.
\* ---------------------------------------------------------------------------
SpecVerifier == Init /\ [][NextVerifier]_vars

LastBridgeCall == Unwrap(bridge_log.last)

\* C31: a bridge transaction reference is verified at most once: no reference
\* appears twice among the calls that succeeded, and a call carrying a
\* reference already in the verified set is refused.
VerifiedAtMostOnce ==
    /\ \A i, j \in 1..Len(bridge_log.committed) :
          i # j => bridge_log.committed[i].tx_hash # bridge_log.committed[j].tx_hash
    /\ bridge_log.last # None /\ LastBridgeCall.known => ~LastBridgeCall.ok

\* A second call with a verified reference was refused by the replay check.
ReplayRefused ==
    /\ bridge_log.last # None
    /\ LastBridgeCall.known
    /\ ~LastBridgeCall.ok
    /\ LastBridgeCall.message = "Transaction already processed (replay attack prevention)"

RECURSIVE UserVolume(_, _)
UserVolume(records, source_user) ==
    IF records = <<>> THEN 0
    ELSE (IF Head(records).source_user = source_user THEN Head(records).amount ELSE 0)
         + UserVolume(Tail(records), source_user)

\* C32: a verification that takes the user's running total above the daily
\* cap is refused: after every successful verification the amounts verified
\* for that user (all calls fall in one 24-hour window) are within the cap the
\* call met.
DailyVolumeWithinCap ==
    bridge_log.last # None /\ LastBridgeCall.ok =>
        UserVolume(bridge_log.committed, LastBridgeCall.source_user)
            <= LastBridgeCall.max_daily_volume

\* C33: while the emergency pause is set, a cross-chain call is refused and
\* the verified set of bridge transactions does not change.
PausedRefusesAll ==
    [][ verifier.bridge_security_config.emergency_pause =>
          /\ verifier'.verified_bridge_txs = verifier.verified_bridge_txs
          /\ bridge_log'.calls # bridge_log.calls => ~Unwrap(bridge_log'.last).ok ]_vars

\* A call that passed the signature checks met the pause and was refused.
RefusedByPause ==
    /\ bridge_log.last # None
    /\ LastBridgeCall.paused
    /\ ~LastBridgeCall.ok
    /\ LastBridgeCall.message = "Bridge operations are paused"

\* ---------------------------------------------------------------------------
\* The conditional token contract on its own.
\* ---------------------------------------------------------------------------
SpecCtf == Init /\ [][NextCtf]_vars

\* The contract after the i-th call that went through.
CtfAfter(i) ==
    IF i = Len(ctf_state.calls) THEN ctf_state.contract
    ELSE ctf_state.calls[i + 1].before

\* The collateral the contract has paid to an account less what it has taken
\* from it, by the transfers it ordered.
RECURSIVE CollateralOf(_, _)
CollateralOf(log, account) ==
    IF log = <<>> THEN 0
    ELSE CollateralOf(Tail(log), account)
         + (IF Head(log).event = "CollateralTransferTo" /\ Head(log).to = account
            THEN Head(log).amount ELSE 0)
         - (IF Head(log).event = "CollateralTransferFrom" /\ Head(log).from = account
            THEN Head(log).amount ELSE 0)

\* Calls i and i + 1 are a split into the (NO, YES) partition and a merge of
\* the same amount of both positions by the same account.
SplitThenMerge(i) ==
    /\ i + 1 <= Len(ctf_state.calls)
    /\ ctf_state.calls[i].op = "split"
    /\ ctf_state.calls[i + 1].op = "merge"
    /\ ctf_state.calls[i].partition \in { <<1, 2>>, <<2, 1>> }
    /\ ctf_state.calls[i + 1].partition \in { <<1, 2>>, <<2, 1>> }
    /\ ctf_state.calls[i + 1].caller = ctf_state.calls[i].caller
    /\ ctf_state.calls[i + 1].condition_id = ctf_state.calls[i].condition_id
    /\ ctf_state.calls[i + 1].amount = ctf_state.calls[i].amount

\* C36: splitting an amount into the (NO, YES) partition and merging the same
\* amount of both positions leaves the account's collateral and both position
\* balances as they were before the split.
SplitMergeRoundTrip ==
    \A i \in 1..Len(ctf_state.calls) :
        SplitThenMerge(i) =>
            LET call == ctf_state.calls[i]
            IN  /\ CollateralOf(CtfAfter(i + 1).log, call.caller)
                     = CollateralOf(call.before.log, call.caller)
                /\ \A index_set \in {1, 2} :
                      BalanceOf(CtfAfter(i + 1), PositionId(call.condition_id, index_set), call.caller)
                        = BalanceOf(call.before, PositionId(call.condition_id, index_set), call.caller)

\* A split was followed by the merge of both positions, by an account that
\* held positions before the split.
RoundTripDone ==
    \E i \in 1..Len(ctf_state.calls) :
        /\ SplitThenMerge(i)
        /\ BalanceOf(ctf_state.calls[i].before,
                     PositionId(ctf_state.calls[i].condition_id, 1),
                     ctf_state.calls[i].caller) > 0

RECURSIVE TotalOf(_, _)
TotalOf(log, event) ==
    IF log = <<>> THEN 0
    ELSE TotalOf(Tail(log), event)
         + (IF Head(log).event = event THEN Head(log).amount ELSE 0)

\* C40: the collateral paid out by merges never exceeds the collateral
\* deposited by splits.
MergesPayWithinDeposits ==
    TotalOf(ctf_state.contract.log, "CollateralTransferTo")
        <= TotalOf(ctf_state.contract.log, "CollateralTransferFrom")

\* ---------------------------------------------------------------------------
\* The NEAR client on its own: balance reads, and transactions.
\* ---------------------------------------------------------------------------
SpecBalance == Init /\ [][NextBalance]_vars
SpecNonce == Init /\ [][NextNonce]_vars

LastBalanceQuery == Unwrap(near_client.balance_query)

\* Every attempt of the query met an RPC error.
Exhausted(responses) ==
    /\ responses # <<>>
    /\ \A attempt \in 1..MaxRetries : responses[attempt].kind = "Error"

\* The answer the query took was not a readable balance.
Unreadable(responses) ==
    /\ responses # <<>>
    /\ \E attempt \in 1..MaxRetries :
          /\ responses[attempt].kind \in {"Unparsable", "OtherKind"}
          /\ \A earlier \in 1..(attempt - 1) : responses[earlier].kind = "Error"

\* C34: when a balance query fails on all of its attempts, or its answer
\* cannot be read, the balance read of the enclosing operation fails: the
\* query is not taken as zero and not left out of the sum.
FailedQueryFailsOperation ==
    ( /\ near_client.balance_query # None
      /\ \/ Exhausted(LastBalanceQuery.usdc) \/ Unreadable(LastBalanceQuery.usdc)
         \/ Exhausted(LastBalanceQuery.yes) \/ Unreadable(LastBalanceQuery.yes)
         \/ Exhausted(LastBalanceQuery.no) \/ Unreadable(LastBalanceQuery.no) )
    => ~LastBalanceQuery.result.ok

\* C35: a call makes at most 3 attempts, and from one transaction built to
\* the next the nonce tracker's value increases, unless the tracker was reset
\* in between and the nonce read from the network again.
NonceTrackerIncreases ==
    /\ near_client.attempts <= 3
    /\ \A i \in 2..Len(near_client.built) :
          ~near_client.built[i].queried =>
              /\ near_client.built[i].tracker # None
              /\ near_client.built[i - 1].tracker # None
              /\ Unwrap(near_client.built[i].tracker)
                   > Unwrap(near_client.built[i - 1].tracker)

====
